---- MODULE Spec2Model ----
(***************************************************************************)
(* Offside: vanishing-point calibration and perspective rays.              *)
(*                                                                         *)
(* State machine of the interaction core: the canonical data model owned   *)
(* by Home (src/app/page.tsx) and the gesture handlers of the              *)
(* useCanvasInteraction hook, which turn mouse and touch events into       *)
(* add-point and commit-drag.                                              *)
(*                                                                         *)
(* Numbers are exact rationals <<n, d>> (d > 0, lowest terms) extended by  *)
(* Infinity, -Infinity and NaN; the source computes in IEEE doubles, which *)
(* are exact on the coordinates used here up to the rounding of one        *)
(* division.                                                               *)
(***************************************************************************)
EXTENDS Integers, Sequences, FiniteSets, TLC

(***************************************************************************)
(* Rational arithmetic (the JavaScript number type on the model's inputs)  *)
(***************************************************************************)
Abs(n) == IF n < 0 THEN -n ELSE n

RECURSIVE GCD(_, _)
GCD(a, b) == IF b = 0 THEN a ELSE GCD(b, a % b)

\* A number is <<n, d>> in lowest terms with d > 0, or one of the IEEE
\* specials: <<1, 0>> = Infinity, <<-1, 0>> = -Infinity, <<0, 0>> = NaN.
RNorm(n, d) ==
    IF d = 0 THEN <<(IF n > 0 THEN 1 ELSE IF n < 0 THEN -1 ELSE 0), 0>>
    ELSE LET s == IF d < 0 THEN -1 ELSE 1
             g == GCD(Abs(n), Abs(d))
         IN  <<(s * n) \div g, (s * d) \div g>>

R(n) == <<n, 1>>
NaN == <<0, 0>>
IsNaN(a) == a[1] = 0 /\ a[2] = 0
IsFinite(a) == a[2] # 0
RNeg(a) == <<-a[1], a[2]>>
RAdd(a, b) ==
    IF a[2] = 0 /\ b[2] = 0 THEN (IF a = b THEN a ELSE NaN)
    ELSE LET g == GCD(a[2], b[2]) IN    \* over the least common denominator
         RNorm(a[1] * (b[2] \div g) + b[1] * (a[2] \div g), (a[2] \div g) * b[2])
RSub(a, b) == RAdd(a, RNeg(b))
RMul(a, b) == RNorm(a[1] * b[1], a[2] * b[2])
RDiv(a, b) == RMul(a, RNorm(b[2], b[1]))
\* a < b, a <= b, a === b: false whenever an operand is NaN
RLt(a, b) ==
    /\ ~IsNaN(a) /\ ~IsNaN(b)
    /\ IF a[2] = 0 /\ b[2] = 0 THEN a[1] < b[1] ELSE a[1] * b[2] < b[1] * a[2]
RLe(a, b) ==
    /\ ~IsNaN(a) /\ ~IsNaN(b)
    /\ IF a[2] = 0 /\ b[2] = 0 THEN a[1] <= b[1] ELSE a[1] * b[2] <= b[1] * a[2]
StrictEq(a, b) == ~IsNaN(a) /\ ~IsNaN(b) /\ a = b
\* Math.min, Math.max: NaN when an argument is NaN
RMin(a, b) == IF IsNaN(a) \/ IsNaN(b) THEN NaN ELSE IF RLt(b, a) THEN b ELSE a
RMax(a, b) == IF IsNaN(a) \/ IsNaN(b) THEN NaN ELSE IF RLt(a, b) THEN b ELSE a

(***************************************************************************)
(* Types (src/types/index.ts)                                              *)
(***************************************************************************)
NULL == [null |-> TRUE]

\* An array slot that was never written, read back as `undefined`.
undefined == [undefined |-> TRUE]

Pt(x, y) == [x |-> R(x), y |-> R(y)]

Line(a, b) == [p1 |-> a, p2 |-> b]

INITIAL_CALIBRATION == [points |-> <<>>, line1 |-> NULL, line2 |-> NULL]

(***************************************************************************)
(* Geometric kernel (src/lib/geometry.ts)                                  *)
(***************************************************************************)
imageToScreen(p, scale, offset) ==
    [x |-> RAdd(RMul(p.x, scale), offset.x),
     y |-> RAdd(RMul(p.y, scale), offset.y)]

\* Variant: the offset subtracted after the division.
screenToImage_OffsetLast(screenPoint, scale, offset) ==
    [x |-> RSub(RDiv(screenPoint.x, scale), offset.x),
     y |-> RSub(RDiv(screenPoint.y, scale), offset.y)]

screenToImage(screenPoint, scale, offset) ==
    [x |-> RDiv(RSub(screenPoint.x, offset.x), scale),
     y |-> RDiv(RSub(screenPoint.y, offset.y), scale)]

\* Variant: the two products added.
Denom_Sum(a, b) ==
    RAdd(RMul(RSub(a.p1.x, a.p2.x), RSub(b.p1.y, b.p2.y)),
         RMul(RSub(a.p1.y, a.p2.y), RSub(b.p1.x, b.p2.x)))

\* denom of lineIntersection: (x1-x2)(y3-y4) - (y1-y2)(x3-x4)
Denom(a, b) ==
    RSub(RMul(RSub(a.p1.x, a.p2.x), RSub(b.p1.y, b.p2.y)),
         RMul(RSub(a.p1.y, a.p2.y), RSub(b.p1.x, b.p2.x)))

\* Variant: denom < 1e-10, without Math.abs.
BelowTolerance_Signed(r) == IsFinite(r) /\ r[1] <= 0

\* Math.abs(denom) < 1e-10.  Every rational the model can hold has a
\* denominator below 2^31 < 10^10, so a non-zero one has magnitude above
\* 1e-10 and the test is a test for zero.
BelowTolerance(r) == IsFinite(r) /\ r[1] = 0

\* Destructuring a line whose endpoint is undefined raises a TypeError.
LineThrows(l) == l.p1 = undefined \/ l.p2 = undefined

lineIntersectionThrows(a, b) == LineThrows(a) \/ LineThrows(b)

\* Variant: the y coordinate advanced along the x extent of line a.
lineIntersection_SwappedExtent(a, b) ==
    LET denom == Denom(a, b) IN
    IF BelowTolerance(denom) THEN NULL
    ELSE
      LET t == RDiv(RSub(RMul(RSub(a.p1.x, b.p1.x), RSub(b.p1.y, b.p2.y)),
                         RMul(RSub(a.p1.y, b.p1.y), RSub(b.p1.x, b.p2.x))),
                    denom)
      IN  [x |-> RAdd(a.p1.x, RMul(t, RSub(a.p2.x, a.p1.x))),
           y |-> RAdd(a.p1.y, RMul(t, RSub(a.p2.x, a.p1.x)))]

lineIntersection(a, b) ==
    LET denom == Denom(a, b) IN
    IF BelowTolerance(denom) THEN NULL
    ELSE
      LET t == RDiv(RSub(RMul(RSub(a.p1.x, b.p1.x), RSub(b.p1.y, b.p2.y)),
                         RMul(RSub(a.p1.y, b.p1.y), RSub(b.p1.x, b.p2.x))),
                    denom)
      IN  [x |-> RAdd(a.p1.x, RMul(t, RSub(a.p2.x, a.p1.x))),
           y |-> RAdd(a.p1.y, RMul(t, RSub(a.p2.y, a.p1.y)))]

\* Variant: the image point under the focal point taken at the new scale.
computePanForZoomAroundPoint_NewScale(focalScreenPoint, newZoom, baseScale, baseOffset, canvasCenter, oldEffScale, oldEffOffset) ==
    LET newEffScale == RMul(baseScale, newZoom)
        imgX == RDiv(RSub(focalScreenPoint.x, oldEffOffset.x), newEffScale)
        imgY == RDiv(RSub(focalScreenPoint.y, oldEffOffset.y), newEffScale)
        basePart == RAdd(RMul(baseOffset.x, newZoom),
                         RMul(canvasCenter.x, RSub(R(1), newZoom)))
        basePartY == RAdd(RMul(baseOffset.y, newZoom),
                          RMul(canvasCenter.y, RSub(R(1), newZoom)))
    IN  [x |-> RSub(RSub(focalScreenPoint.x, RMul(imgX, newEffScale)), basePart),
         y |-> RSub(RSub(focalScreenPoint.y, RMul(imgY, newEffScale)), basePartY)]

computePanForZoomAroundPoint(focalScreenPoint, newZoom, baseScale, baseOffset, canvasCenter, oldEffScale, oldEffOffset) ==
    LET imgX == RDiv(RSub(focalScreenPoint.x, oldEffOffset.x), oldEffScale)
        imgY == RDiv(RSub(focalScreenPoint.y, oldEffOffset.y), oldEffScale)
        newEffScale == RMul(baseScale, newZoom)
        basePart == RAdd(RMul(baseOffset.x, newZoom),
                         RMul(canvasCenter.x, RSub(R(1), newZoom)))
        basePartY == RAdd(RMul(baseOffset.y, newZoom),
                          RMul(canvasCenter.y, RSub(R(1), newZoom)))
    IN  [x |-> RSub(RSub(focalScreenPoint.x, RMul(imgX, newEffScale)), basePart),
         y |-> RSub(RSub(focalScreenPoint.y, RMul(imgY, newEffScale)), basePartY)]

(***************************************************************************)
(* Colours (src/lib/colors.ts)                                             *)
(***************************************************************************)
OFFSIDE_COLORS ==
    <<"#FF4444", "#44FF44", "#FFFF44", "#FF8844", "#44FFFF", "#FF44FF",
      "#88FF44", "#4488FF", "#FF4488", "#44FF88", "#FFAA44", "#AA44FF">>

\* Variant: indices past the palette take its last colour.
getOffsideColor_Clamped(index) ==
    OFFSIDE_COLORS[IF index < Len(OFFSIDE_COLORS) THEN index + 1 ELSE Len(OFFSIDE_COLORS)]

getOffsideColor(index) == OFFSIDE_COLORS[(index % Len(OFFSIDE_COLORS)) + 1]

(***************************************************************************)
(* Hook constants (src/hooks/useCanvasInteraction.ts)                      *)
(***************************************************************************)
DRAG_THRESHOLD == 8
TAP_MAX_DURATION == 300
HIT_RADIUS == 24
MIN_ZOOM == 1
MAX_ZOOM == 5
WHEEL_ZOOM_IN == <<11, 10>>
WHEEL_ZOOM_OUT == RDiv(R(1), WHEEL_ZOOM_IN)
BUTTON_ZOOM_FACTOR == <<5, 4>>

(***************************************************************************)
(* The loaded image and the canvas container: image.width, image.height    *)
(* and the container's bounding rectangle read by computeLayout.           *)
(***************************************************************************)
ImageWidth == 60
ImageHeight == 20
ContainerWidth == 180
ContainerHeight == 90

TheImage == [width |-> ImageWidth, height |-> ImageHeight]

(***************************************************************************)
(* State                                                                   *)
(***************************************************************************)
VARIABLES
    image,            \* Home: useState<HTMLImageElement | null>
    mode,             \* Home: "upload" | "calibration" | "offside"
    calibration,      \* Home: CalibrationState
    vanishingPoint,   \* Home: Point | null
    offsideLines,     \* Home: OffsideLine[]
    parallelError,    \* Home: boolean
    activeDrag,       \* hook: DragState | null
    view,             \* hook: viewRef.current {zoom, pan}
    pendingTouchRef,  \* hook: PendingTouch | null
    mouseDragRef,     \* hook: {source, startScreen} | null
    justDraggedRef,   \* hook: boolean
    panDragRef,       \* hook: {startScreen, startPan} | null
    justPannedRef,    \* hook: boolean
    pinchRef,         \* hook: {initialDistance, initialMidpoint, initialZoom,
                      \*   initialPan} | null
    layoutRef,        \* hook: {scale, offset, canvasWidth, canvasHeight}
    uuidCount,        \* number of ids crypto.randomUUID has handed out
    pointer,          \* environment: mouse button "up" | "down" | "click"
                      \*   (released on the canvas, click event pending) and
                      \*   the position of its last event
    crashed,          \* an exception escaped a state updater or the render pass
    lastOp            \* history: the data-model operation the last handler
                      \*   performed ("none" for a handler that performed none)

homeVars == <<image, mode, calibration, vanishingPoint, offsideLines, parallelError>>
dataVars == <<mode, calibration, vanishingPoint, offsideLines, parallelError>>
hookVars == <<activeDrag, view, pendingTouchRef, mouseDragRef, justDraggedRef,
              panDragRef, justPannedRef, pinchRef, layoutRef>>
vars == <<image, mode, calibration, vanishingPoint, offsideLines, parallelError,
          activeDrag, view, pendingTouchRef, mouseDragRef, justDraggedRef,
          panDragRef, justPannedRef, pinchRef, layoutRef, uuidCount, pointer, crashed,
          lastOp>>

PointerUp == [button |-> "up", at |-> NULL, press |-> NULL, heldFor |-> 0]

NoOp == [op |-> "none"]

\* add-point at `point`, issued when the calibration had `points` entries
\* and `lines` offside lines existed.
AddPointOp(point) ==
    [op |-> "add-point", point |-> point,
     points |-> Len(calibration.points), lines |-> Len(offsideLines)]

CommitDragOp(drag) ==
    [op |-> "commit-drag", source |-> drag.source, point |-> drag.currentPoint,
     points |-> Len(calibration.points), lines |-> Len(offsideLines)]

(***************************************************************************)
(* Layout and effective transform                                          *)
(***************************************************************************)
\* computeLayout: fit-to-container scale and centring offset, as stored in
\* layoutRef.current.
computeLayout ==
    LET cw == R(ContainerWidth)
        ch == R(ContainerHeight)
        scale == RMin(RDiv(cw, R(ImageWidth)), RDiv(ch, R(ImageHeight)))
    IN  [scale |-> scale,
         offset |-> [x |-> RDiv(RSub(cw, RMul(R(ImageWidth), scale)), R(2)),
                     y |-> RDiv(RSub(ch, RMul(R(ImageHeight), scale)), R(2))],
         canvasWidth |-> cw,
         canvasHeight |-> ch]

\* useRef initialiser of layoutRef
InitialLayout ==
    [scale |-> R(1), offset |-> Pt(0, 0), canvasWidth |-> R(0), canvasHeight |-> R(0)]

EffectiveTransform(v) ==
    LET centerX == RDiv(layoutRef.canvasWidth, R(2))
        centerY == RDiv(layoutRef.canvasHeight, R(2))
    IN  [scale |-> RMul(layoutRef.scale, v.zoom),
         offset |->
           [x |-> RAdd(RAdd(RMul(layoutRef.offset.x, v.zoom),
                            RMul(centerX, RSub(R(1), v.zoom))), v.pan.x),
            y |-> RAdd(RAdd(RMul(layoutRef.offset.y, v.zoom),
                            RMul(centerY, RSub(R(1), v.zoom))), v.pan.y)]]

getEffectiveTransform == EffectiveTransform(view)

getImagePointFromScreen(screenPt) ==
    screenToImage(screenPt, getEffectiveTransform.scale, getEffectiveTransform.offset)

\* Variant: a margin of 0.9.
ClampMargin_Wide == <<9, 10>>

\* clampPan: const margin = 0.2
ClampMargin == <<1, 5>>

\* The pan bounds clampPan computes for a zoom.
panBounds(zoom) ==
    LET imgW == RMul(RMul(R(ImageWidth), layoutRef.scale), zoom)
        imgH == RMul(RMul(R(ImageHeight), layoutRef.scale), zoom)
        margin == ClampMargin
        centerX == RDiv(layoutRef.canvasWidth, R(2))
        centerY == RDiv(layoutRef.canvasHeight, R(2))
        naturalX == RAdd(RMul(layoutRef.offset.x, zoom), RMul(centerX, RSub(R(1), zoom)))
        naturalY == RAdd(RMul(layoutRef.offset.y, zoom), RMul(centerY, RSub(R(1), zoom)))
    IN  [minPanX |-> RNeg(RSub(RAdd(naturalX, imgW), RMul(layoutRef.canvasWidth, margin))),
         maxPanX |-> RSub(RMul(layoutRef.canvasWidth, RSub(R(1), margin)), naturalX),
         minPanY |-> RNeg(RSub(RAdd(naturalY, imgH), RMul(layoutRef.canvasHeight, margin))),
         maxPanY |-> RSub(RMul(layoutRef.canvasHeight, RSub(R(1), margin)), naturalY)]

clampPan(pan, zoom) ==
    IF image = NULL THEN pan
    ELSE LET b == panBounds(zoom) IN
         [x |-> RMin(RMax(pan.x, b.minPanX), b.maxPanX),
          y |-> RMin(RMax(pan.y, b.minPanY), b.maxPanY)]

\* Math.hypot(dx, dy) compared through its square (both sides are >= 0).
Hypot2(a, b) ==
    LET dx == RSub(a.x, b.x)
        dy == RSub(a.y, b.y)
    IN  RAdd(RMul(dx, dx), RMul(dy, dy))

\* A variant of the scan in which a candidate also wins when exactly as close
\* as the best so far.
RECURSIVE HitScan_LastWins(_, _, _, _)
HitScan_LastWins(cands, i, bestDist2, bestSource) ==
    IF i > Len(cands) THEN bestSource
    ELSE LET d2 == cands[i].d2 IN
         IF RLe(d2, bestDist2)
         THEN HitScan_LastWins(cands, i + 1, d2, cands[i].source)
         ELSE HitScan_LastWins(cands, i + 1, bestDist2, bestSource)

\* hitTestPoints: offside throughPoints in order, then calibration points in
\* reverse order; a candidate wins only when strictly closer than the best.
RECURSIVE HitScan(_, _, _, _)
HitScan(cands, i, bestDist2, bestSource) ==
    IF i > Len(cands) THEN bestSource
    ELSE LET d2 == cands[i].d2 IN
         IF RLt(d2, bestDist2)
         THEN HitScan(cands, i + 1, d2, cands[i].source)
         ELSE HitScan(cands, i + 1, bestDist2, bestSource)

hitTestPoints(screenPt) ==
    LET t == getEffectiveTransform
        n == Len(offsideLines)
        m == Len(calibration.points)
        cands == [k \in 1..(n + m) |->
                    IF k <= n
                    THEN [d2 |-> Hypot2(imageToScreen(offsideLines[k].throughPoint,
                                                      t.scale, t.offset), screenPt),
                          source |-> [kind |-> "offside", lineId |-> offsideLines[k].id]]
                    ELSE [d2 |-> Hypot2(imageToScreen(calibration.points[m - (k - n) + 1],
                                                      t.scale, t.offset), screenPt),
                          source |-> [kind |-> "calibration", index |-> m - (k - n)]]]
    IN  HitScan(cands, 1, R(HIT_RADIUS * HIT_RADIUS), NULL)

(***************************************************************************)
(* Interaction controller (useCanvasInteraction)                           *)
(***************************************************************************)
\* JavaScript array write newPoints[idx] = p: slots skipped over stay unset.
ArraySet(arr, idx, p) ==
    [k \in 1..(IF idx + 1 > Len(arr) THEN idx + 1 ELSE Len(arr)) |->
        IF k = idx + 1 THEN p
        ELSE IF k <= Len(arr) THEN arr[k] ELSE undefined]

\* renderCanvas reads calPoint(0..1) when two points exist and calPoint(2..3)
\* when four exist; imageToScreen of an unset slot raises a TypeError.
renderCanvasThrows(cal) ==
    \/ Len(cal.points) >= 2 /\ (cal.points[1] = undefined \/ cal.points[2] = undefined)
    \/ Len(cal.points) >= 4 /\ (cal.points[3] = undefined \/ cal.points[4] = undefined)

\* crypto.randomUUID(): an id no earlier call has returned.
randomUUID == uuidCount + 1

\* The state setters called where a vanishing-point computation was
\* attempted (both lines present) and returned vp.
addPointVanishingPoint(attempt, vp) ==
    IF attempt /\ vp # NULL THEN vp ELSE vanishingPoint

addPointMode(attempt, vp) ==
    IF attempt /\ vp # NULL THEN "offside" ELSE mode

\* Variant: a failed computation leaves the flag as it was.
addPointParallelError_Silent(attempt, vp) ==
    IF attempt /\ vp # NULL THEN FALSE ELSE parallelError

addPointParallelError(attempt, vp) ==
    IF attempt THEN vp = NULL ELSE parallelError

\* Variant: no limit on the number of points.
addPointNext_Unbounded(prev, newPoints, line1, line2) ==
    [points |-> newPoints, line1 |-> line1, line2 |-> line2]

\* if (newPoints.length > 4) return prev
addPointNext(prev, newPoints, line1, line2) ==
    IF Len(newPoints) > 4 THEN prev
    ELSE [points |-> newPoints, line1 |-> line1, line2 |-> line2]

newOffsideLine(imagePoint) ==
    [id |-> randomUUID,
     throughPoint |-> imagePoint,
     color |-> getOffsideColor(Len(offsideLines))]

\* addPointAtImageCoords(imagePoint): the intent `add-point`.
addPointAtImageCoords(imagePoint) ==
    IF mode = "calibration" THEN
        LET prev == calibration
            newPoints == Append(prev.points, imagePoint)
            line1 == IF Len(newPoints) = 2
                     THEN Line(newPoints[1], newPoints[2]) ELSE prev.line1
            line2 == IF Len(newPoints) = 4
                     THEN Line(newPoints[3], newPoints[4]) ELSE prev.line2
            attempt == Len(newPoints) = 4 /\ line1 # NULL /\ line2 # NULL
        IN  IF attempt /\ lineIntersectionThrows(line1, line2) THEN
                /\ crashed' = TRUE
                /\ UNCHANGED <<dataVars, uuidCount>>
            ELSE
                LET vp == IF attempt THEN lineIntersection(line1, line2) ELSE NULL
                    next == addPointNext(prev, newPoints, line1, line2)
                IN  /\ calibration' = next
                    /\ vanishingPoint' = addPointVanishingPoint(attempt, vp)
                    /\ mode' = addPointMode(attempt, vp)
                    /\ parallelError' = addPointParallelError(attempt, vp)
                    /\ crashed' = renderCanvasThrows(next)
                    /\ UNCHANGED <<offsideLines, uuidCount>>
    ELSE IF mode = "offside" /\ vanishingPoint # NULL THEN
        /\ offsideLines' = Append(offsideLines, newOffsideLine(imagePoint))
        /\ uuidCount' = uuidCount + 1
        /\ UNCHANGED <<mode, calibration, vanishingPoint, parallelError, crashed>>
    ELSE
        UNCHANGED <<dataVars, uuidCount, crashed>>

\* Variant: line1 is not re-derived.
commitDragLine1_Kept(newPoints, prevLine1) == prevLine1

\* Lines re-derived from whichever points are present.
commitDragLine1(newPoints, prevLine1) ==
    IF Len(newPoints) >= 2 THEN Line(newPoints[1], newPoints[2]) ELSE prevLine1

commitDragLine2(newPoints, prevLine2) ==
    IF Len(newPoints) >= 4 THEN Line(newPoints[3], newPoints[4]) ELSE prevLine2

\* Variant: the vanishing point is not recomputed.
commitDragVanishingPoint_Kept(attempt, vp) == vanishingPoint

\* Variant: a failed computation clears the vanishing point.
commitDragVanishingPoint_Cleared(attempt, vp) ==
    IF attempt THEN vp ELSE vanishingPoint

commitDragVanishingPoint(attempt, vp) ==
    IF attempt /\ vp # NULL THEN vp ELSE vanishingPoint

\* Variant: a failed computation leaves the flag as it was.
commitDragParallelError_Silent(attempt, vp) ==
    IF attempt /\ vp # NULL THEN FALSE ELSE parallelError

commitDragParallelError(attempt, vp) ==
    IF attempt THEN vp = NULL ELSE parallelError

\* Variant: a successful computation enters offside mode.
commitDragMode_Enter(attempt, vp) ==
    IF attempt /\ vp # NULL THEN "offside" ELSE mode

\* commitDrag never calls setMode.
commitDragMode(attempt, vp) == mode

\* prev.map(l => l.id === lineId ? {...l, throughPoint} : l)
commitDragLines(lines, lineId, currentPoint) ==
    [k \in 1..Len(lines) |->
        IF lines[k].id = lineId
        THEN [lines[k] EXCEPT !.throughPoint = currentPoint]
        ELSE lines[k]]

\* commitDrag(drag): the intent `commit-drag`.
commitDrag(drag) ==
    IF drag.source.kind = "calibration" THEN
        LET prev == calibration
            idx == drag.source.index
            newPoints == ArraySet(prev.points, idx, drag.currentPoint)
            line1 == commitDragLine1(newPoints, prev.line1)
            line2 == commitDragLine2(newPoints, prev.line2)
            attempt == line1 # NULL /\ line2 # NULL
        IN  IF attempt /\ lineIntersectionThrows(line1, line2) THEN
                /\ crashed' = TRUE
                /\ UNCHANGED <<dataVars, uuidCount>>
            ELSE
                LET vp == IF attempt THEN lineIntersection(line1, line2) ELSE NULL
                    next == [points |-> newPoints, line1 |-> line1, line2 |-> line2]
                IN  /\ calibration' = next
                    /\ vanishingPoint' = commitDragVanishingPoint(attempt, vp)
                    /\ parallelError' = commitDragParallelError(attempt, vp)
                    /\ mode' = commitDragMode(attempt, vp)
                    /\ crashed' = renderCanvasThrows(next)
                    /\ UNCHANGED <<offsideLines, uuidCount>>
    ELSE
        /\ offsideLines' = commitDragLines(offsideLines, drag.source.lineId,
                                           drag.currentPoint)
        /\ UNCHANGED <<mode, calibration, vanishingPoint, parallelError, uuidCount, crashed>>

(***************************************************************************)
(* Home (src/app/page.tsx): image load and the toolbar / sidebar handlers. *)
(* Each is reachable only through the control that renders it.             *)
(***************************************************************************)
\* Variant: the view of the previous image survives.
HookMounted_KeepView ==
    /\ activeDrag' = NULL
    /\ view' = view
    /\ pendingTouchRef' = NULL
    /\ mouseDragRef' = NULL
    /\ justDraggedRef' = FALSE
    /\ panDragRef' = NULL
    /\ justPannedRef' = FALSE
    /\ pinchRef' = NULL
    /\ layoutRef' = IF image' = NULL THEN InitialLayout ELSE computeLayout
    /\ pointer' = PointerUp

\* The state of a freshly mounted useCanvasInteraction hook.
HookMounted ==
    /\ activeDrag' = NULL
    /\ view' = [zoom |-> R(1), pan |-> Pt(0, 0)]
    /\ pendingTouchRef' = NULL
    /\ mouseDragRef' = NULL
    /\ justDraggedRef' = FALSE
    /\ panDragRef' = NULL
    /\ justPannedRef' = FALSE
    /\ pinchRef' = NULL
    /\ layoutRef' = IF image' = NULL THEN InitialLayout ELSE computeLayout
    /\ pointer' = PointerUp

\* ImageUploader is rendered only in upload mode; OffsideCanvas mounts.
handleImageLoad ==
    /\ ~crashed
    /\ mode = "upload"
    /\ image' = TheImage
    /\ mode' = "calibration"
    /\ calibration' = INITIAL_CALIBRATION
    /\ vanishingPoint' = NULL
    /\ offsideLines' = <<>>
    /\ parallelError' = FALSE
    /\ HookMounted
    /\ lastOp' = [op |-> "image-load"]
    /\ UNCHANGED <<uuidCount, crashed>>

\* Variant: the reset leaves the rays in place.
handleResetCalibration_KeepRays ==
    /\ ~crashed
    /\ mode # "upload"
    /\ parallelError \/ mode = "offside"
    /\ mode' = "calibration"
    /\ calibration' = INITIAL_CALIBRATION
    /\ vanishingPoint' = NULL
    /\ parallelError' = FALSE
    /\ lastOp' = [op |-> "reset-calibration"]
    /\ UNCHANGED <<image, offsideLines, hookVars, uuidCount, pointer, crashed>>

\* Toolbar button "Reset Calibration": shown when parallelError or offside.
handleResetCalibration ==
    /\ ~crashed
    /\ mode # "upload"
    /\ parallelError \/ mode = "offside"
    /\ mode' = "calibration"
    /\ calibration' = INITIAL_CALIBRATION
    /\ vanishingPoint' = NULL
    /\ offsideLines' = <<>>
    /\ parallelError' = FALSE
    /\ lastOp' = [op |-> "reset-calibration"]
    /\ UNCHANGED <<image, hookVars, uuidCount, pointer, crashed>>

\* Variant: clearing the lines also fits the image back into the canvas.
handleClearOffsideLines_Fit ==
    /\ ~crashed
    /\ mode = "offside"
    /\ Len(offsideLines) > 0
    /\ offsideLines' = <<>>
    /\ view' = [zoom |-> R(1), pan |-> Pt(0, 0)]
    /\ lastOp' = [op |-> "clear-rays"]
    /\ UNCHANGED <<image, mode, calibration, vanishingPoint, parallelError,
                   activeDrag, pendingTouchRef, mouseDragRef, justDraggedRef,
                   panDragRef, justPannedRef, pinchRef, layoutRef,
                   uuidCount, pointer, crashed>>

\* Toolbar button "Clear All Lines": shown in offside mode with lines.
handleClearOffsideLines ==
    /\ ~crashed
    /\ mode = "offside"
    /\ Len(offsideLines) > 0
    /\ offsideLines' = <<>>
    /\ lastOp' = [op |-> "clear-rays"]
    /\ UNCHANGED <<image, mode, calibration, vanishingPoint, parallelError,
                   hookVars, uuidCount, pointer, crashed>>

\* Toolbar button "New Image"; OffsideCanvas unmounts with its hook state.
handleResetAll ==
    /\ ~crashed
    /\ mode # "upload"
    /\ image' = NULL
    /\ mode' = "upload"
    /\ calibration' = INITIAL_CALIBRATION
    /\ vanishingPoint' = NULL
    /\ offsideLines' = <<>>
    /\ parallelError' = FALSE
    /\ HookMounted
    /\ lastOp' = [op |-> "full-reset", zoom |-> view.zoom]
    /\ UNCHANGED <<uuidCount, crashed>>

\* Variant: the scan stops at the matching element.
RECURSIVE SelectSeqRec_Truncating(_, _, _)
SelectSeqRec_Truncating(s, i, id) ==
    IF i > Len(s) THEN <<>>
    ELSE IF s[i].id # id THEN <<s[i]>> \o SelectSeqRec_Truncating(s, i + 1, id)
    ELSE <<>>

\* Array.prototype.filter
RECURSIVE SelectSeqRec(_, _, _)
SelectSeqRec(s, i, id) ==
    IF i > Len(s) THEN <<>>
    ELSE IF s[i].id # id THEN <<s[i]>> \o SelectSeqRec(s, i + 1, id)
    ELSE SelectSeqRec(s, i + 1, id)

\* Sidebar OffsideLineList: one delete button per existing line.
handleDeleteLine(id) ==
    /\ ~crashed
    /\ mode # "upload"
    /\ \E k \in 1..Len(offsideLines) : offsideLines[k].id = id
    /\ offsideLines' = SelectSeqRec(offsideLines, 1, id)
    /\ lastOp' = [op |-> "delete-ray", id |-> id]
    /\ UNCHANGED <<image, mode, calibration, vanishingPoint, parallelError,
                   hookVars, uuidCount, pointer, crashed>>

(***************************************************************************)
(* SharedView (src/app/s/[id]/SharedView.tsx): the page behind a share     *)
(* link.  It owns the same data model, seeded from the stored ShareData,   *)
(* and mounts OffsideCanvas once the stored image has loaded.              *)
(***************************************************************************)
\* The image element loaded from data.imageUrl.
SharedImage == [width |-> ImageWidth, height |-> ImageHeight, src |-> "data.imageUrl"]

\* SharedView is the page on screen: its mode is never upload, and its
\* image is absent only until data.imageUrl has loaded.
InSharedView == (image = NULL /\ mode # "upload") \/ image = SharedImage

\* useState initialisers of SharedView
SharedViewInit(data) ==
    /\ image = NULL
    /\ mode = "offside"
    /\ calibration =
         [points |-> data.calibration.points,
          line1 |-> IF Len(data.calibration.points) >= 2
                    THEN Line(data.calibration.points[1], data.calibration.points[2])
                    ELSE NULL,
          line2 |-> IF Len(data.calibration.points) >= 4
                    THEN Line(data.calibration.points[3], data.calibration.points[4])
                    ELSE NULL]
    /\ vanishingPoint = data.vanishingPoint
    /\ offsideLines = data.offsideLines
    /\ parallelError = FALSE

\* img.onload = () => setImage(img); OffsideCanvas mounts.
SharedView_imageOnload ==
    /\ ~crashed
    /\ InSharedView
    /\ image = NULL
    /\ image' = SharedImage
    /\ HookMounted
    /\ lastOp' = [op |-> "image-load"]
    /\ UNCHANGED <<dataVars, uuidCount, crashed>>

\* Variant: the offside lines survive the reset.
SharedView_resetCalibration_KeepLines ==
    /\ mode' = "calibration"
    /\ calibration' = [points |-> <<>>, line1 |-> NULL, line2 |-> NULL]
    /\ vanishingPoint' = NULL
    /\ offsideLines' = offsideLines
    /\ parallelError' = FALSE

\* The setters of SharedView's handleResetCalibration.
SharedView_resetCalibration ==
    /\ mode' = "calibration"
    /\ calibration' = [points |-> <<>>, line1 |-> NULL, line2 |-> NULL]
    /\ vanishingPoint' = NULL
    /\ offsideLines' = <<>>
    /\ parallelError' = FALSE

\* Toolbar (rendered once the image is there) button "Reset Calibration".
SharedView_handleResetCalibration ==
    /\ ~crashed
    /\ InSharedView
    /\ image # NULL
    /\ parallelError \/ mode = "offside"
    /\ SharedView_resetCalibration
    /\ lastOp' = [op |-> "reset-calibration"]
    /\ UNCHANGED <<image, hookVars, uuidCount, pointer, crashed>>

\* Toolbar button "New Image": onResetAll={handleResetCalibration}.
SharedView_onResetAll ==
    /\ ~crashed
    /\ InSharedView
    /\ image # NULL
    /\ SharedView_resetCalibration
    /\ lastOp' = [op |-> "full-reset", zoom |-> view.zoom]
    /\ UNCHANGED <<image, hookVars, uuidCount, pointer, crashed>>

SharedView_handleClearOffsideLines ==
    /\ ~crashed
    /\ InSharedView
    /\ image # NULL
    /\ mode = "offside"
    /\ Len(offsideLines) > 0
    /\ offsideLines' = <<>>
    /\ lastOp' = [op |-> "clear-rays"]
    /\ UNCHANGED <<image, mode, calibration, vanishingPoint, parallelError,
                   hookVars, uuidCount, pointer, crashed>>

SharedView_handleDeleteLine(id) ==
    /\ ~crashed
    /\ InSharedView
    /\ image # NULL
    /\ \E k \in 1..Len(offsideLines) : offsideLines[k].id = id
    /\ offsideLines' = SelectSeqRec(offsideLines, 1, id)
    /\ lastOp' = [op |-> "delete-ray", id |-> id]
    /\ UNCHANGED <<image, mode, calibration, vanishingPoint, parallelError,
                   hookVars, uuidCount, pointer, crashed>>

(***************************************************************************)
(* Touch handlers (single-finger sessions)                                 *)
(***************************************************************************)
\* Math.hypot on screen coordinates.  The touch positions are whole pixels
\* chosen so that the squared distance is a perfect square.
ISqrt(n) ==
    CHOOSE k \in 0..(ContainerWidth + ContainerHeight) : k * k <= n /\ n < (k + 1) * (k + 1)

Hypot(a, b) ==
    LET h2 == Hypot2(a, b) IN <<ISqrt(h2[1]), ISqrt(h2[2])>>

Midpoint(t0, t1) ==
    [x |-> RDiv(RAdd(t0.x, t1.x), R(2)), y |-> RDiv(RAdd(t0.y, t1.y), R(2))]

\* Variant: a second finger leaves the gesture of the first as it is.
handleCanvasTouchStart_KeepGesture(touches) ==
    /\ ~crashed
    /\ mode # "upload"
    /\ IF Len(touches) >= 2
       THEN LET mid == Midpoint(touches[1], touches[2]) IN
            /\ pinchRef' = [initialDistance |-> Hypot(touches[2], touches[1]),
                            initialMidpoint |-> mid,
                            initialZoom |-> view.zoom,
                            initialPan |-> view.pan]
            /\ pendingTouchRef' =
                 IF pendingTouchRef # NULL
                 THEN pendingTouchRef
                 ELSE [screenPoint |-> mid,
                       imagePoint |-> getImagePointFromScreen(mid),
                       hitTarget |-> NULL,
                       gesture |-> "pinch",
                       initialPan |-> view.pan]
            /\ activeDrag' = activeDrag
       ELSE LET screenPt == touches[1] IN
            /\ pendingTouchRef = NULL
            /\ pendingTouchRef' = [screenPoint |-> screenPt,
                                   imagePoint |-> getImagePointFromScreen(screenPt),
                                   hitTarget |-> hitTestPoints(screenPt),
                                   gesture |-> "none",
                                   initialPan |-> view.pan]
            /\ UNCHANGED <<pinchRef, activeDrag>>
    /\ lastOp' = NoOp
    /\ UNCHANGED <<layoutRef, homeVars, view, mouseDragRef, justDraggedRef,
                   panDragRef, justPannedRef, uuidCount, pointer, crashed>>

\* touches = e.touches, the positions of the fingers on the canvas
handleCanvasTouchStart(touches) ==
    /\ ~crashed
    /\ mode # "upload"
    /\ IF Len(touches) >= 2
       THEN LET mid == Midpoint(touches[1], touches[2]) IN
            /\ pinchRef' = [initialDistance |-> Hypot(touches[2], touches[1]),
                            initialMidpoint |-> mid,
                            initialZoom |-> view.zoom,
                            initialPan |-> view.pan]
            /\ pendingTouchRef' =
                 IF pendingTouchRef # NULL
                 THEN [pendingTouchRef EXCEPT !.gesture = "pinch"]
                 ELSE [screenPoint |-> mid,
                       imagePoint |-> getImagePointFromScreen(mid),
                       hitTarget |-> NULL,
                       gesture |-> "pinch",
                       initialPan |-> view.pan]
            /\ activeDrag' = NULL
       ELSE LET screenPt == touches[1] IN
            /\ pendingTouchRef = NULL          \* no finger is down
            /\ pendingTouchRef' = [screenPoint |-> screenPt,
                                   imagePoint |-> getImagePointFromScreen(screenPt),
                                   hitTarget |-> hitTestPoints(screenPt),
                                   gesture |-> "none",
                                   initialPan |-> view.pan]
            /\ UNCHANGED <<pinchRef, activeDrag>>
    /\ lastOp' = NoOp
    /\ UNCHANGED <<layoutRef, homeVars, view, mouseDragRef, justDraggedRef,
                   panDragRef, justPannedRef, uuidCount, pointer, crashed>>

\* The pinch branch of handleCanvasTouchMove: the view after two fingers
\* at t0, t1 moved.
pinchView(t0, t1) ==
    LET pinch == pinchRef
        dist == Hypot(t1, t0)
        mid == Midpoint(t0, t1)
        ratio == RDiv(dist, pinch.initialDistance)
        newZoom == RMin(R(MAX_ZOOM), RMax(R(MIN_ZOOM), RMul(pinch.initialZoom, ratio)))
        canvasCenter == [x |-> RDiv(layoutRef.canvasWidth, R(2)),
                         y |-> RDiv(layoutRef.canvasHeight, R(2))]
        init == EffectiveTransform([zoom |-> pinch.initialZoom, pan |-> pinch.initialPan])
        newPan == computePanForZoomAroundPoint(mid, newZoom, layoutRef.scale, layoutRef.offset,
                                               canvasCenter, init.scale, init.offset)
        adjustedPan == [x |-> RAdd(newPan.x, RSub(mid.x, pinch.initialMidpoint.x)),
                        y |-> RAdd(newPan.y, RSub(mid.y, pinch.initialMidpoint.y))]
    IN  [zoom |-> newZoom, pan |-> clampPan(adjustedPan, newZoom)]

handleCanvasTouchMove(touches) ==
    /\ ~crashed
    /\ mode # "upload"
    /\ pendingTouchRef # NULL
    /\ IF Len(touches) >= 2 /\ pinchRef # NULL
       THEN /\ pendingTouchRef' = [pendingTouchRef EXCEPT !.gesture = "pinch"]
            /\ activeDrag' = NULL
            /\ view' = pinchView(touches[1], touches[2])
       ELSE IF Len(touches) >= 2
       THEN /\ pendingTouchRef' = [pendingTouchRef EXCEPT !.gesture = "pinch"]
            /\ activeDrag' = NULL
            /\ view' = view
       ELSE
       LET pending == pendingTouchRef
           currentScreen == touches[1]
           far == RLt(R(DRAG_THRESHOLD * DRAG_THRESHOLD),
                      Hypot2(currentScreen, pending.screenPoint))
           gesture == IF pending.gesture = "none" /\ far
                      THEN IF pending.hitTarget # NULL THEN "drag"
                           ELSE IF RLt(R(1), view.zoom) THEN "pan"
                           ELSE "pinch"
                      ELSE pending.gesture
           suppressed == pending.gesture = "pinch"
                         \/ (pending.gesture = "none" /\ gesture = "pinch")
       IN  /\ pendingTouchRef' = [pending EXCEPT !.gesture = gesture]
           /\ IF ~suppressed /\ gesture = "pan"
              THEN view' = [view EXCEPT !.pan =
                              clampPan([x |-> RAdd(pending.initialPan.x,
                                                   RSub(currentScreen.x, pending.screenPoint.x)),
                                        y |-> RAdd(pending.initialPan.y,
                                                   RSub(currentScreen.y, pending.screenPoint.y))],
                                       view.zoom)]
              ELSE view' = view
           /\ IF ~suppressed /\ gesture = "drag" /\ pending.hitTarget # NULL
              THEN activeDrag' = [source |-> pending.hitTarget,
                                  originalPoint |-> pending.imagePoint,
                                  currentPoint |-> getImagePointFromScreen(currentScreen)]
              ELSE activeDrag' = activeDrag
    /\ lastOp' = NoOp
    /\ UNCHANGED <<layoutRef, pinchRef, homeVars, mouseDragRef, justDraggedRef, panDragRef,
                   justPannedRef, uuidCount, pointer, crashed>>

\* elapsed = Date.now() - pending.timestamp
handleCanvasTouchEnd(elapsed) ==
    /\ ~crashed
    /\ mode # "upload"
    /\ pendingTouchRef # NULL
    /\ pendingTouchRef' = NULL
    /\ activeDrag' = NULL
    /\ LET pending == pendingTouchRef
           dragSnapshot == activeDrag
       IN  IF pending.gesture = "pinch" \/ pending.gesture = "pan" THEN
               /\ lastOp' = NoOp
               /\ UNCHANGED <<dataVars, uuidCount, crashed>>
           ELSE IF pending.gesture = "drag" /\ dragSnapshot # NULL THEN
               /\ commitDrag(dragSnapshot)
               /\ lastOp' = CommitDragOp(dragSnapshot)
           ELSE IF pending.gesture = "none" /\ elapsed < TAP_MAX_DURATION
                   /\ pending.hitTarget = NULL THEN
               /\ addPointAtImageCoords(pending.imagePoint)
               /\ lastOp' = AddPointOp(pending.imagePoint)
           ELSE
               /\ lastOp' = NoOp
               /\ UNCHANGED <<dataVars, uuidCount, crashed>>
    /\ pinchRef' = NULL
    /\ UNCHANGED <<layoutRef, image, view, mouseDragRef, justDraggedRef, panDragRef,
                   justPannedRef, pointer>>

(***************************************************************************)
(* Mouse handlers                                                          *)
(***************************************************************************)
handleCanvasMouseDown(sp) ==
    /\ ~crashed
    /\ mode # "upload"
    /\ pointer.button = "up"
    /\ pointer' = [button |-> "down", at |-> sp, press |-> sp, heldFor |-> 0]
    /\ LET hit == hitTestPoints(sp) IN
       IF hit # NULL THEN
           /\ mouseDragRef' = [source |-> hit, startScreen |-> sp]
           /\ justDraggedRef' = FALSE
           /\ UNCHANGED <<panDragRef, justPannedRef>>
       ELSE IF RLt(R(1), view.zoom) THEN
           /\ panDragRef' = [startScreen |-> sp, startPan |-> view.pan]
           /\ justPannedRef' = FALSE
           /\ UNCHANGED <<mouseDragRef, justDraggedRef>>
       ELSE
           UNCHANGED <<mouseDragRef, justDraggedRef, panDragRef, justPannedRef>>
    /\ lastOp' = NoOp
    /\ UNCHANGED <<layoutRef, pinchRef, homeVars, activeDrag, view, pendingTouchRef, uuidCount, crashed>>

\* A variant that writes the dragged position through on every move instead
\* of previewing it.
handleCanvasMouseMove_Live(sp) ==
    /\ ~crashed
    /\ mode # "upload"
    /\ pointer.button = "down"
    /\ mouseDragRef # NULL
    /\ pointer' = [pointer EXCEPT !.at = sp]
    /\ LET drag == [source |-> mouseDragRef.source,
                    originalPoint |-> getImagePointFromScreen(sp),
                    currentPoint |-> getImagePointFromScreen(sp)]
       IN  /\ activeDrag' = drag
           /\ commitDrag(drag)
    /\ justDraggedRef' = TRUE
    /\ lastOp' = NoOp
    /\ UNCHANGED <<image, view, layoutRef, pinchRef, pendingTouchRef, mouseDragRef,
                   panDragRef, justPannedRef>>

\* Moves with the button held; with the button up a move only updates the
\* hover preview, which is not part of this state.
handleCanvasMouseMove(sp) ==
    /\ ~crashed
    /\ mode # "upload"
    /\ pointer.button = "down"
    /\ pointer' = [pointer EXCEPT !.at = sp]
    /\ IF panDragRef # NULL THEN
           LET moved == RLt(R(DRAG_THRESHOLD * DRAG_THRESHOLD),
                            Hypot2(sp, panDragRef.startScreen)) \/ justPannedRef
           IN  /\ justPannedRef' = moved
               /\ view' = IF moved
                          THEN [view EXCEPT !.pan =
                                  clampPan([x |-> RAdd(panDragRef.startPan.x,
                                                       RSub(sp.x, panDragRef.startScreen.x)),
                                            y |-> RAdd(panDragRef.startPan.y,
                                                       RSub(sp.y, panDragRef.startScreen.y))],
                                           view.zoom)]
                          ELSE view
               /\ UNCHANGED <<activeDrag, justDraggedRef>>
       ELSE IF mouseDragRef # NULL THEN
           LET moved == RLt(R(DRAG_THRESHOLD * DRAG_THRESHOLD),
                            Hypot2(sp, mouseDragRef.startScreen)) \/ justDraggedRef
               imagePt == getImagePointFromScreen(sp)
               src == mouseDragRef.source
               origPt == IF src.kind = "calibration"
                         THEN IF src.index + 1 <= Len(calibration.points)
                              THEN calibration.points[src.index + 1] ELSE undefined
                         ELSE IF \E k \in 1..Len(offsideLines) : offsideLines[k].id = src.lineId
                              THEN offsideLines[CHOOSE k \in 1..Len(offsideLines) :
                                       /\ offsideLines[k].id = src.lineId
                                       /\ \A j \in 1..(k - 1) : offsideLines[j].id # src.lineId
                                   ].throughPoint
                              ELSE imagePt
           IN  /\ justDraggedRef' = moved
               /\ activeDrag' = IF moved
                                THEN [source |-> src, originalPoint |-> origPt,
                                      currentPoint |-> imagePt]
                                ELSE activeDrag
               /\ UNCHANGED <<view, justPannedRef>>
       ELSE
           UNCHANGED <<activeDrag, view, justDraggedRef, justPannedRef>>
    /\ lastOp' = NoOp
    /\ UNCHANGED <<layoutRef, pinchRef, homeVars, pendingTouchRef, mouseDragRef, panDragRef,
                   uuidCount, crashed>>

\* Button released over the canvas, elapsed ms after the press; the browser
\* dispatches click next.  The handler does not read the time.
handleCanvasMouseUp(elapsed) ==
    /\ ~crashed
    /\ mode # "upload"
    /\ pointer.button = "down"
    /\ pointer' = [pointer EXCEPT !.button = "click", !.heldFor = elapsed]
    /\ IF panDragRef # NULL THEN
           /\ panDragRef' = NULL
           /\ lastOp' = NoOp
           /\ UNCHANGED <<dataVars, uuidCount, crashed, mouseDragRef, activeDrag>>
       ELSE
           /\ mouseDragRef' = NULL
           /\ activeDrag' = NULL
           /\ panDragRef' = panDragRef
           /\ IF mouseDragRef # NULL /\ justDraggedRef /\ activeDrag # NULL THEN
                  /\ commitDrag(activeDrag)
                  /\ lastOp' = CommitDragOp(activeDrag)
              ELSE
                  /\ lastOp' = NoOp
                  /\ UNCHANGED <<dataVars, uuidCount, crashed>>
    /\ UNCHANGED <<layoutRef, pinchRef, image, view, pendingTouchRef, justDraggedRef, justPannedRef>>

\* Variant: a click handler without the two suppression flags.
handleCanvasClick_NoSuppress ==
    /\ ~crashed
    /\ mode # "upload"
    /\ pointer.button = "click"
    /\ pointer' = PointerUp
    /\ IF hitTestPoints(pointer.at) # NULL THEN
           /\ lastOp' = NoOp
           /\ UNCHANGED <<dataVars, uuidCount, crashed>>
       ELSE
           /\ addPointAtImageCoords(getImagePointFromScreen(pointer.at))
           /\ lastOp' = AddPointOp(getImagePointFromScreen(pointer.at))
    /\ justDraggedRef' = FALSE
    /\ justPannedRef' = FALSE
    /\ UNCHANGED <<layoutRef, pinchRef, image, activeDrag, view, pendingTouchRef, mouseDragRef, panDragRef>>

\* The click event that follows a release, at the release position.
handleCanvasClick ==
    /\ ~crashed
    /\ mode # "upload"
    /\ pointer.button = "click"
    /\ pointer' = PointerUp
    /\ IF justDraggedRef THEN
           /\ justDraggedRef' = FALSE
           /\ lastOp' = NoOp
           /\ UNCHANGED <<dataVars, uuidCount, crashed, justPannedRef>>
       ELSE IF justPannedRef THEN
           /\ justPannedRef' = FALSE
           /\ lastOp' = NoOp
           /\ UNCHANGED <<dataVars, uuidCount, crashed, justDraggedRef>>
       ELSE IF hitTestPoints(pointer.at) # NULL THEN
           /\ lastOp' = NoOp
           /\ UNCHANGED <<dataVars, uuidCount, crashed, justDraggedRef, justPannedRef>>
       ELSE
           /\ addPointAtImageCoords(getImagePointFromScreen(pointer.at))
           /\ lastOp' = AddPointOp(getImagePointFromScreen(pointer.at))
           /\ UNCHANGED <<justDraggedRef, justPannedRef>>
    /\ UNCHANGED <<layoutRef, pinchRef, image, activeDrag, view, pendingTouchRef, mouseDragRef, panDragRef>>

\* The pointer leaves the canvas with the button held.  Outside, the canvas
\* receives no mouse event.
handleCanvasMouseLeave ==
    /\ ~crashed
    /\ mode # "upload"
    /\ pointer.button = "down"
    /\ pointer' = [pointer EXCEPT !.button = "outside", !.at = NULL]
    /\ IF mouseDragRef # NULL
       THEN mouseDragRef' = NULL /\ activeDrag' = NULL
       ELSE UNCHANGED <<mouseDragRef, activeDrag>>
    /\ panDragRef' = NULL
    /\ lastOp' = NoOp
    /\ UNCHANGED <<layoutRef, pinchRef, homeVars, view, pendingTouchRef, justDraggedRef, justPannedRef,
                   uuidCount, crashed>>

\* The button is released outside the canvas: no mouseup and no click reach
\* the canvas.
MouseReleaseOutside ==
    /\ pointer.button = "outside"
    /\ pointer' = PointerUp
    /\ lastOp' = NoOp
    /\ UNCHANGED <<homeVars, hookVars, uuidCount, crashed>>

\* The pointer comes back over the canvas with the button still held; the
\* canvas has no mouseenter handler, the next events it receives are
\* mousemove, mouseup and click.
MouseReenter(sp) ==
    /\ pointer.button = "outside"
    /\ pointer' = [pointer EXCEPT !.button = "down", !.at = sp]
    /\ lastOp' = NoOp
    /\ UNCHANGED <<homeVars, hookVars, uuidCount, crashed>>

(***************************************************************************)
(* Zoom: the wheel listener and the toolbar's zoom controls                *)
(***************************************************************************)
CanvasCenter ==
    [x |-> RDiv(layoutRef.canvasWidth, R(2)), y |-> RDiv(layoutRef.canvasHeight, R(2))]

\* The view after zooming to newZoom around the screen point focal.
zoomedView(focal, newZoom) ==
    LET oldEff == getEffectiveTransform
        newPan == computePanForZoomAroundPoint(focal, newZoom, layoutRef.scale, layoutRef.offset,
                                               CanvasCenter, oldEff.scale, oldEff.offset)
    IN  [zoom |-> newZoom, pan |-> clampPan(newPan, newZoom)]

\* zoomingIn = e.deltaY < 0
handleWheel(screenPt, zoomingIn) ==
    /\ ~crashed
    /\ mode # "upload"
    /\ LET oldZoom == view.zoom
           factor == IF zoomingIn THEN WHEEL_ZOOM_IN ELSE WHEEL_ZOOM_OUT
           newZoom == RMin(R(MAX_ZOOM), RMax(R(MIN_ZOOM), RMul(oldZoom, factor)))
       IN  view' = IF StrictEq(newZoom, oldZoom) THEN view
                   ELSE zoomedView(screenPt, newZoom)
    /\ lastOp' = NoOp
    /\ UNCHANGED <<layoutRef, homeVars, activeDrag, pendingTouchRef, mouseDragRef, justDraggedRef,
                   panDragRef, justPannedRef, pinchRef, uuidCount, pointer, crashed>>

\* Toolbar "+": disabled while zoomLevel >= 5.
zoomIn ==
    /\ ~crashed
    /\ mode # "upload"
    /\ ~RLe(R(5), view.zoom)
    /\ LET oldZoom == view.zoom
           newZoom == RMin(R(MAX_ZOOM), RMul(oldZoom, BUTTON_ZOOM_FACTOR))
       IN  view' = IF StrictEq(newZoom, oldZoom) THEN view
                   ELSE zoomedView(CanvasCenter, newZoom)
    /\ lastOp' = NoOp
    /\ UNCHANGED <<layoutRef, homeVars, activeDrag, pendingTouchRef, mouseDragRef, justDraggedRef,
                   panDragRef, justPannedRef, pinchRef, uuidCount, pointer, crashed>>

\* Toolbar "-": disabled while zoomLevel <= 1.
zoomOut ==
    /\ ~crashed
    /\ mode # "upload"
    /\ ~RLe(view.zoom, R(1))
    /\ LET oldZoom == view.zoom
           newZoom == RMax(R(MIN_ZOOM), RDiv(oldZoom, BUTTON_ZOOM_FACTOR))
       IN  view' = IF StrictEq(newZoom, oldZoom) THEN view
                   ELSE zoomedView(CanvasCenter, newZoom)
    /\ lastOp' = NoOp
    /\ UNCHANGED <<layoutRef, homeVars, activeDrag, pendingTouchRef, mouseDragRef, justDraggedRef,
                   panDragRef, justPannedRef, pinchRef, uuidCount, pointer, crashed>>

\* Variant: "Fit" that also drops the offside lines.
resetView_ClearRays ==
    /\ ~crashed
    /\ mode # "upload"
    /\ view' = [zoom |-> R(1), pan |-> Pt(0, 0)]
    /\ offsideLines' = <<>>
    /\ lastOp' = NoOp
    /\ UNCHANGED <<layoutRef, image, mode, calibration, vanishingPoint, parallelError, activeDrag,
                   pendingTouchRef, mouseDragRef, justDraggedRef, panDragRef, justPannedRef,
                   pinchRef, uuidCount, pointer, crashed>>

\* Toolbar "Fit"
resetView ==
    /\ ~crashed
    /\ mode # "upload"
    /\ view' = [zoom |-> R(1), pan |-> Pt(0, 0)]
    /\ lastOp' = NoOp
    /\ UNCHANGED <<layoutRef, homeVars, activeDrag, pendingTouchRef, mouseDragRef, justDraggedRef,
                   panDragRef, justPannedRef, pinchRef, uuidCount, pointer, crashed>>

(***************************************************************************)
(* Inputs                                                                  *)
(***************************************************************************)
\* Screen position over the image point (10 i, 10 j).
Screen(i, j) == imageToScreen(Pt(10 * i, 10 * j), computeLayout.scale, computeLayout.offset)

\* Where fingers and the mouse button go down.
Positions == {Screen(0, 0), Screen(1, 0), Screen(0, 1), Screen(1, 1)}

\* Where a pressed finger or mouse moves to.
MovePositions == {Screen(1, 0), Screen(1, 1)}

ElapsedTimes == {0, TAP_MAX_DURATION}

\* At most MaxUuid offside lines are created in a session.
MaxUuid == 1

(***************************************************************************)
(* Specification                                                           *)
(***************************************************************************)
Init ==
    /\ image = NULL
    /\ mode = "upload"
    /\ calibration = INITIAL_CALIBRATION
    /\ vanishingPoint = NULL
    /\ offsideLines = <<>>
    /\ parallelError = FALSE
    /\ activeDrag = NULL
    /\ view = [zoom |-> R(1), pan |-> Pt(0, 0)]
    /\ pendingTouchRef = NULL
    /\ mouseDragRef = NULL
    /\ justDraggedRef = FALSE
    /\ panDragRef = NULL
    /\ justPannedRef = FALSE
    /\ pinchRef = NULL
    /\ layoutRef = InitialLayout
    /\ uuidCount = 0
    /\ pointer = PointerUp
    /\ crashed = FALSE
    /\ lastOp = NoOp

\* One pointing device at a time: a finger goes down while the mouse button
\* is up, the mouse button goes down while no finger is on the canvas.
TouchDown(touches) == pointer.button = "up" /\ handleCanvasTouchStart(touches)
ButtonDown(sp) == pendingTouchRef = NULL /\ handleCanvasMouseDown(sp)

TouchStart == \E sp \in Positions : TouchDown(<<sp>>)
TouchMove == \E sp \in MovePositions : handleCanvasTouchMove(<<sp>>)
TouchEnd == \E e \in ElapsedTimes : handleCanvasTouchEnd(e) /\ uuidCount' <= MaxUuid
MouseDown == \E sp \in Positions : ButtonDown(sp)
MouseMove == \E sp \in MovePositions : handleCanvasMouseMove(sp)
MouseUp == \E e \in ElapsedTimes : handleCanvasMouseUp(e)
Click == handleCanvasClick /\ uuidCount' <= MaxUuid
MouseLeave == handleCanvasMouseLeave
MouseReturn == \E sp \in MovePositions : MouseReenter(sp)
\* A position left of the canvas: touch events keep targeting the canvas
\* when the finger leaves it.
OutsidePosition == Screen(-1, 1)
TouchMoveOutside == handleCanvasTouchMove(<<OutsidePosition>>)
DeleteLine == \E id \in 1..MaxUuid : handleDeleteLine(id)

Next ==
    \/ handleImageLoad
    \/ handleResetCalibration
    \/ handleClearOffsideLines
    \/ handleResetAll
    \/ DeleteLine
    \/ TouchStart
    \/ TouchMove
    \/ TouchEnd

\* A touch-screen session: taps, drags and the toolbar, in any interleaving.
Spec == Init /\ [][Next]_vars

NextMouse ==
    \/ handleImageLoad
    \/ handleResetCalibration
    \/ handleClearOffsideLines
    \/ handleResetAll
    \/ DeleteLine
    \/ MouseDown
    \/ MouseMove
    \/ MouseUp
    \/ Click
    \/ MouseLeave
    \/ MouseReleaseOutside
    \/ MouseReturn

\* A desktop session: the same with the mouse.
SpecMouse == Init /\ [][NextMouse]_vars

NextPointer ==
    \/ handleImageLoad
    \/ handleResetCalibration
    \/ handleClearOffsideLines
    \/ handleResetAll
    \/ DeleteLine
    \/ TouchStart
    \/ TouchMove
    \/ TouchEnd
    \/ MouseDown
    \/ MouseMove
    \/ MouseUp
    \/ Click
    \/ MouseLeave
    \/ MouseReleaseOutside
    \/ MouseReturn

\* A device with both a touch screen and a mouse: one gesture at a time,
\* either pointing device for the next one.
SpecPointer == Init /\ [][NextPointer]_vars

\* Where the mouse moves to and comes back in.
LeavePosition == Screen(1, 1)

NextLeave ==
    \/ handleImageLoad
    \/ TouchStart
    \/ TouchMoveOutside
    \/ TouchEnd
    \/ MouseDown
    \/ handleCanvasMouseMove(LeavePosition)
    \/ MouseUp
    \/ Click
    \/ MouseLeave
    \/ MouseReleaseOutside
    \/ MouseReenter(LeavePosition)

\* Gestures that cross the edge of the canvas, with a finger or the mouse.
SpecLeave == Init /\ [][NextLeave]_vars

(***************************************************************************)
(* A session that draws many offside lines: the user calibrates with the   *)
(* four clicks (0,0), (10,10), (0,10), (10,0), then taps one fresh spot    *)
(* per line, and deletes lines only early in the session.                  *)
(***************************************************************************)
MaxRayTaps == 13
MaxDeleteUuid == 3

CalTaps == <<Screen(0, 0), Screen(1, 1), Screen(0, 1), Screen(1, 0)>>

RayTap(k) == Screen(2 + (k \div 3), k % 3)

RaysTouchStart ==
    IF mode = "calibration"
    THEN /\ Len(calibration.points) < Len(CalTaps)
         /\ TouchDown(<<CalTaps[Len(calibration.points) + 1]>>)
    ELSE /\ uuidCount < MaxRayTaps
         /\ TouchDown(<<RayTap(uuidCount)>>)

RaysTouchEnd == handleCanvasTouchEnd(0)

RaysDeleteLine ==
    /\ uuidCount <= MaxDeleteUuid
    /\ \E id \in 1..MaxDeleteUuid : handleDeleteLine(id)

NextRays ==
    \/ handleImageLoad
    \/ handleResetCalibration
    \/ handleClearOffsideLines
    \/ handleResetAll
    \/ RaysDeleteLine
    \/ RaysTouchStart
    \/ RaysTouchEnd

SpecRays == Init /\ [][NextRays]_vars

(***************************************************************************)
(* A session that zooms and pans, on either page.  Taps land on scripted   *)
(* points while the view is the identity; every other single-finger touch  *)
(* is a long press or a pan.                                               *)
(***************************************************************************)
\* Largest denominator of a zoom level the session goes to.
MaxZoomDenominator == 4

IdentityView == [zoom |-> R(1), pan |-> Pt(0, 0)]

SharedRays ==
    <<[id |-> 1, throughPoint |-> Pt(20, 0), color |-> OFFSIDE_COLORS[1]],
      [id |-> 2, throughPoint |-> Pt(40, 20), color |-> OFFSIDE_COLORS[2]]>>

\* The stored analyses a share link can lead to.
ShareDatas ==
    {[calibration |-> [points |-> <<Pt(0, 0), Pt(10, 10), Pt(0, 10), Pt(10, 0)>>],
      vanishingPoint |-> Pt(5, 5),
      offsideLines |-> rays] : rays \in {<<>>, SharedRays}}

InitView ==
    /\ \/ /\ image = NULL
          /\ mode = "upload"
          /\ calibration = INITIAL_CALIBRATION
          /\ vanishingPoint = NULL
          /\ offsideLines = <<>>
          /\ parallelError = FALSE
       \/ \E data \in ShareDatas : SharedViewInit(data)
    /\ activeDrag = NULL
    /\ view = IdentityView
    /\ pendingTouchRef = NULL
    /\ mouseDragRef = NULL
    /\ justDraggedRef = FALSE
    /\ panDragRef = NULL
    /\ justPannedRef = FALSE
    /\ pinchRef = NULL
    /\ layoutRef = InitialLayout
    /\ uuidCount = Len(offsideLines)
    /\ pointer = PointerUp
    /\ crashed = FALSE
    /\ lastOp = NoOp

ViewTaps == CalTaps \o <<Screen(2, 0)>>

\* Where a finger goes down to pan, and where it moves to.
PanStart == Screen(3, 1)
PanMoves == {Screen(0, 0)}

\* Two fingers around the canvas centre: on the same spot, 60 px apart,
\* 120 px apart.
PinchStarts == {<<Screen(3, 1), Screen(3, 1)>>, <<Screen(2, 1), Screen(4, 1)>>}
PinchMoves == {<<Screen(3, 1), Screen(3, 1)>>, <<Screen(1, 1), Screen(5, 1)>>}

WheelPositions == {Screen(3, 1)}

ZoomWithinBound == IsFinite(view'.zoom) => view'.zoom[2] <= MaxZoomDenominator

\* No finger is on the canvas: the toolbar and the wheel are used between
\* gestures.
NoTouch == pendingTouchRef = NULL

ViewTap ==
    /\ ~InSharedView
    /\ view = IdentityView
    /\ mode = "calibration" \/ uuidCount < MaxUuid
    /\ LET n == Len(calibration.points) + Len(offsideLines) IN
       /\ n < Len(ViewTaps)
       /\ TouchDown(<<ViewTaps[n + 1]>>)

\* One finger goes down on empty space while the image is centred.
ViewTouchStart ==
    /\ image # NULL
    /\ view.pan = Pt(0, 0)
    /\ hitTestPoints(PanStart) = NULL
    /\ TouchDown(<<PanStart>>)

ViewPinchStart ==
    /\ image # NULL
    /\ NoTouch
    /\ \E ts \in PinchStarts : TouchDown(ts)

ViewTouchMove == \E sp \in PanMoves : handleCanvasTouchMove(<<sp>>)

ViewPinchMove ==
    /\ pinchRef # NULL
    /\ \E ts \in PinchMoves : handleCanvasTouchMove(ts)
    /\ ZoomWithinBound

ViewTouchEnd ==
    handleCanvasTouchEnd(IF pendingTouchRef # NULL /\ pendingTouchRef.screenPoint # PanStart
                         THEN 0 ELSE TAP_MAX_DURATION)

Wheel ==
    /\ image # NULL
    /\ NoTouch
    /\ \E sp \in WheelPositions, zoomingIn \in BOOLEAN : handleWheel(sp, zoomingIn)
    /\ ZoomWithinBound

ZoomIn == image # NULL /\ NoTouch /\ zoomIn /\ ZoomWithinBound

ZoomOut == image # NULL /\ NoTouch /\ zoomOut /\ ZoomWithinBound

ResetView == image # NULL /\ NoTouch /\ resetView

NextView ==
    \/ ~InSharedView /\ NoTouch /\ handleImageLoad
    \/ ~InSharedView /\ NoTouch /\ handleResetCalibration
    \/ ~InSharedView /\ NoTouch /\ handleClearOffsideLines
    \/ ~InSharedView /\ NoTouch /\ handleResetAll
    \/ SharedView_imageOnload
    \/ NoTouch /\ SharedView_handleResetCalibration
    \/ NoTouch /\ SharedView_handleClearOffsideLines
    \/ NoTouch /\ SharedView_onResetAll
    \/ NoTouch /\ \E id \in 1..Len(SharedRays) : SharedView_handleDeleteLine(id)
    \/ ViewTap
    \/ ViewTouchStart
    \/ ViewPinchStart
    \/ ViewTouchMove
    \/ ViewPinchMove
    \/ ViewTouchEnd
    \/ Wheel
    \/ ZoomIn
    \/ ZoomOut
    \/ ResetView

SpecView == InitView /\ [][NextView]_vars

\* Where the mouse button goes down to pan: near the bottom edge, so that
\* a move to the top reaches the limit clampPan sets.
MousePanStart == [x |-> R(90), y |-> R(85)]

\* A finger position above the canvas, far enough from PanStart to reach
\* that limit.
PanFar == [x |-> R(90), y |-> R(-40)]

\* No gesture is under way: the toolbar, the wheel and the fingers are used
\* between mouse gestures.
NoMouse == pointer = PointerUp

\* The mouse button goes down on empty space of a zoomed, centred image.
ViewMouseDown ==
    /\ image # NULL
    /\ NoTouch
    /\ RLt(R(1), view.zoom)
    /\ view.pan = Pt(0, 0)
    /\ hitTestPoints(MousePanStart) = NULL
    /\ ButtonDown(MousePanStart)

\* The mouse button goes down on the through-point of the first ray while
\* the image is shown unzoomed: the start of a drag.
RayPosition == Screen(2, 0)

ViewMouseDownRay ==
    /\ image # NULL
    /\ NoTouch
    /\ view = IdentityView
    /\ hitTestPoints(RayPosition) # NULL
    /\ ButtonDown(RayPosition)

ViewMouseMove == \E sp \in PanMoves : handleCanvasMouseMove(sp)

\* The button is released after the view has been panned or a point has
\* been dragged.
ViewMouseUp == (justPannedRef \/ justDraggedRef) /\ handleCanvasMouseUp(TAP_MAX_DURATION)

ViewTouchMoveFar == NoMouse /\ handleCanvasTouchMove(<<PanFar>>)

NextViewPointer ==
    \/ NoMouse /\ NextView
    \/ ViewTouchMoveFar
    \/ ViewMouseDown
    \/ ViewMouseDownRay
    \/ ViewMouseMove
    \/ ViewMouseUp
    \/ handleCanvasClick
    \/ handleCanvasMouseLeave
    \/ MouseReleaseOutside

\* Zooming and panning with the fingers, the wheel, the toolbar and the
\* mouse.
SpecViewPointer == InitView /\ [][NextViewPointer]_vars

\* One finger goes down while the image is shown unzoomed: a tap, or the
\* start of a drag when it lands on a point.
FingerDown == view = IdentityView /\ TouchStart

\* One finger goes down on empty space of a zoomed, centred image: the
\* start of a pan.
FingerDownZoomed ==
    /\ RLt(R(1), view.zoom)
    /\ ViewTouchStart

\* Where the first finger moves to.
FingerMovePosition == Screen(1, 1)
FingerMove == handleCanvasTouchMove(<<FingerMovePosition>>)

\* Where the two fingers are once a second one has come down, and where
\* they move to: nowhere, and four times as far apart (past the edges of
\* the canvas), which zooms to 4 or to MAX_ZOOM.
SecondFingerTouches == <<Screen(2, 1), Screen(4, 1)>>
TwoFingerMoves == {<<Screen(2, 1), Screen(4, 1)>>, <<Screen(-1, 1), Screen(7, 1)>>}

\* A second finger comes down while the first one is on the canvas.
SecondFinger ==
    /\ pendingTouchRef # NULL
    /\ pinchRef = NULL
    /\ TouchDown(SecondFingerTouches)

TwoFingerMove ==
    /\ pinchRef # NULL
    /\ \E ts \in TwoFingerMoves : handleCanvasTouchMove(ts)
    /\ ZoomWithinBound

\* The fingers are lifted.  A lift that leaves a finger on the canvas
\* returns from handleCanvasTouchEnd before anything is changed
\* (e.touches.length > 0), so only the lift of the last finger is a step;
\* the finger that stays may move in between (FingerMove, ViewTouchMove).
FingersUp ==
    /\ \E e \in ElapsedTimes :
           /\ pendingTouchRef # NULL
           /\ pendingTouchRef.screenPoint = PanStart => e = TAP_MAX_DURATION
           /\ handleCanvasTouchEnd(e)
    /\ uuidCount' <= MaxUuid

NextFingers ==
    \/ NoTouch /\ handleImageLoad
    \/ FingerDown
    \/ FingerDownZoomed
    \/ SecondFinger
    \/ FingerMove
    \/ ViewTouchMove
    \/ TwoFingerMove
    \/ FingersUp
    \/ ZoomIn
    \/ ResetView

\* One-finger gestures that a second finger interrupts.
SpecFingers == Init /\ [][NextFingers]_vars

(***************************************************************************)
(* lineIntersection on its own: two lines through points of a coordinate   *)
(* grid are handed to it, in either order.                                 *)
(***************************************************************************)
\* Grid coordinates are 0, 5, .., 5 * GridMax.
GridMax == 2

GridPoints == {Pt(5 * i, 5 * j) : i \in 0..GridMax, j \in 0..GridMax}

InitLines ==
    /\ image = TheImage
    /\ mode = "calibration"
    /\ \E p1 \in GridPoints, p2 \in GridPoints, p3 \in GridPoints, p4 \in GridPoints :
          calibration = [points |-> <<p1, p2, p3, p4>>,
                         line1 |-> Line(p1, p2),
                         line2 |-> Line(p3, p4)]
    /\ vanishingPoint = NULL
    /\ offsideLines = <<>>
    /\ parallelError = FALSE
    /\ activeDrag = NULL
    /\ view = [zoom |-> R(1), pan |-> Pt(0, 0)]
    /\ pendingTouchRef = NULL
    /\ mouseDragRef = NULL
    /\ justDraggedRef = FALSE
    /\ panDragRef = NULL
    /\ justPannedRef = FALSE
    /\ pinchRef = NULL
    /\ layoutRef = computeLayout
    /\ uuidCount = 0
    /\ pointer = PointerUp
    /\ crashed = FALSE
    /\ lastOp = NoOp

\* lineIntersection(line1, line2)
Intersect ==
    /\ vanishingPoint' = lineIntersection(calibration.line1, calibration.line2)
    /\ lastOp' = [op |-> "lineIntersection", a |-> 1, b |-> 2]
    /\ UNCHANGED <<image, mode, calibration, offsideLines, parallelError, hookVars,
                   uuidCount, pointer, crashed>>

\* lineIntersection(line2, line1)
IntersectSwapped ==
    /\ vanishingPoint' = lineIntersection(calibration.line2, calibration.line1)
    /\ lastOp' = [op |-> "lineIntersection", a |-> 2, b |-> 1]
    /\ UNCHANGED <<image, mode, calibration, offsideLines, parallelError, hookVars,
                   uuidCount, pointer, crashed>>

NextLines ==
    \/ Intersect
    \/ IntersectSwapped

SpecLines == InitLines /\ [][NextLines]_vars

(***************************************************************************)
(* The coordinate transforms on their own: a point, a scale and an offset  *)
(* are handed to imageToScreen and the result to screenToImage; a focal    *)
(* point and a new zoom are handed to computePanForZoomAroundPoint and the *)
(* returned pan is applied unclamped.                                      *)
(***************************************************************************)
TransformCoords == {R(-10), R(0), <<5, 2>>}

TransformPoints == {[x |-> cx, y |-> cy] : cx \in TransformCoords, cy \in TransformCoords}

\* scale > 0
TransformScales == {<<1, 3>>, R(1), R(3), <<5, 2>>}

TransformOffsets == {Pt(0, 0), Pt(0, 15), [x |-> R(-7), y |-> <<1, 2>>]}

\* Zoom levels before and after; their ratios cover [1/5, 5].
TransformZooms == {R(1), <<5, 4>>, R(5)}

TransformPans == {Pt(0, 0), Pt(-90, -30)}

FocalPoints == {Pt(90, 45), Pt(0, 15), [x |-> R(37), y |-> <<161, 2>>]}

InitTransform ==
    /\ image = TheImage
    /\ mode = "calibration"
    /\ \E p \in TransformPoints :
          calibration = [points |-> <<p>>, line1 |-> NULL, line2 |-> NULL]
    /\ vanishingPoint = NULL
    /\ offsideLines = <<>>
    /\ parallelError = FALSE
    /\ activeDrag = NULL
    /\ \E z \in TransformZooms, pan \in TransformPans : view = [zoom |-> z, pan |-> pan]
    /\ pendingTouchRef = NULL
    /\ mouseDragRef = NULL
    /\ justDraggedRef = FALSE
    /\ panDragRef = NULL
    /\ justPannedRef = FALSE
    /\ pinchRef = NULL
    /\ \E scale \in TransformScales, offset \in TransformOffsets :
          layoutRef = [scale |-> scale, offset |-> offset,
                       canvasWidth |-> R(ContainerWidth),
                       canvasHeight |-> R(ContainerHeight)]
    /\ uuidCount = 0
    /\ pointer = PointerUp
    /\ crashed = FALSE
    /\ lastOp = NoOp

\* imageToScreen(p, scale, offset); the screen point is kept in activeDrag.
ToScreen ==
    /\ lastOp = NoOp
    /\ activeDrag' = [source |-> [kind |-> "calibration", index |-> 0],
                      originalPoint |-> calibration.points[1],
                      currentPoint |-> imageToScreen(calibration.points[1],
                                                     layoutRef.scale, layoutRef.offset)]
    /\ lastOp' = [op |-> "imageToScreen"]
    /\ UNCHANGED <<homeVars, view, pendingTouchRef, mouseDragRef, justDraggedRef,
                   panDragRef, justPannedRef, pinchRef, layoutRef, uuidCount, pointer,
                   crashed>>

\* screenToImage(that screen point, scale, offset)
ToImage ==
    /\ lastOp.op = "imageToScreen"
    /\ activeDrag' = [activeDrag EXCEPT !.currentPoint =
                        screenToImage(activeDrag.currentPoint,
                                      layoutRef.scale, layoutRef.offset)]
    /\ lastOp' = [op |-> "screenToImage"]
    /\ UNCHANGED <<homeVars, view, pendingTouchRef, mouseDragRef, justDraggedRef,
                   panDragRef, justPannedRef, pinchRef, layoutRef, uuidCount, pointer,
                   crashed>>

\* The zoom becomes newZoom and the pan what computePanForZoomAroundPoint
\* returns for the focal point, unclamped.
ZoomAround(focal, newZoom) ==
    /\ lastOp = NoOp
    /\ LET oldEff == getEffectiveTransform IN
       view' = [zoom |-> newZoom,
                pan |-> computePanForZoomAroundPoint(focal, newZoom,
                            layoutRef.scale, layoutRef.offset, CanvasCenter,
                            oldEff.scale, oldEff.offset)]
    /\ lastOp' = [op |-> "zoom-around", focal |-> focal]
    /\ UNCHANGED <<homeVars, activeDrag, pendingTouchRef, mouseDragRef, justDraggedRef,
                   panDragRef, justPannedRef, pinchRef, layoutRef, uuidCount, pointer,
                   crashed>>

NextTransform ==
    \/ ToScreen
    \/ ToImage
    \/ \E focal \in FocalPoints, newZoom \in TransformZooms : ZoomAround(focal, newZoom)

SpecTransform == InitTransform /\ [][NextTransform]_vars

(***************************************************************************)
(* Vocabulary of the properties                                            *)
(***************************************************************************)
\* (b - a) x (d - c)
Cross(a, b, c, d) ==
    RSub(RMul(RSub(b.x, a.x), RSub(d.y, c.y)),
         RMul(RSub(b.y, a.y), RSub(d.x, c.x)))

Parallel(l1, l2) == Cross(l1.p1, l1.p2, l2.p1, l2.p2) = R(0)

\* v lies on the infinite line through l.p1 and l.p2
OnLine(v, l) == Cross(l.p1, l.p2, l.p1, v) = R(0)

Defined(l) == l # NULL /\ l.p1 # undefined /\ l.p2 # undefined

LineIds(lines) == {lines[k].id : k \in 1..Len(lines)}

AddPointStep == lastOp'.op = "add-point"

CommitDragStep == lastOp'.op = "commit-drag"

(***************************************************************************)
(* C1  In every reachable state calibration.points has at most 4 entries;  *)
(* line1 is non-null iff points.length >= 2 and is then (points[0],        *)
(* points[1]); line2 is non-null iff points.length >= 4 and is then        *)
(* (points[2], points[3]).                                                 *)
(***************************************************************************)
C1_CalibrationInvariant ==
    LET pts == calibration.points IN
    /\ Len(pts) <= 4
    /\ (calibration.line1 # NULL) <=> (Len(pts) >= 2)
    /\ Len(pts) >= 2 => calibration.line1 = [p1 |-> pts[1], p2 |-> pts[2]]
    /\ (calibration.line2 # NULL) <=> (Len(pts) >= 4)
    /\ Len(pts) >= 4 => calibration.line2 = [p1 |-> pts[3], p2 |-> pts[4]]

\* Four points and both lines, just after a drag of a calibration point
\* was committed.
C1_Witness ==
    /\ lastOp.op = "commit-drag"
    /\ lastOp.source.kind = "calibration"
    /\ Len(calibration.points) = 4
    /\ calibration.line2 # NULL

(***************************************************************************)
(* C2  Every change of mode is one of: upload -> calibration by image      *)
(* load; calibration -> offside by the add-point that supplies the 4th     *)
(* calibration point and yields a vanishing point; offside -> calibration  *)
(* by reset-calibration; any mode -> upload by full-reset.                 *)
(***************************************************************************)
C2_ModeChange ==
    mode' # mode =>
        \/ mode = "upload" /\ mode' = "calibration" /\ handleImageLoad
        \/ /\ mode = "calibration" /\ mode' = "offside"
           /\ AddPointStep
           /\ Len(calibration.points) = 3
           /\ Len(calibration'.points) = 4
           /\ vanishingPoint' # NULL
        \/ mode = "offside" /\ mode' = "calibration" /\ handleResetCalibration
        \/ mode' = "upload" /\ handleResetAll

C3_FourthPoint ==
    LET pts == calibration.points IN
    (/\ AddPointStep
     /\ mode = "calibration"
     /\ Len(pts) = 3
     /\ ~Parallel(Line(pts[1], pts[2]), Line(pts[3], lastOp'.point)))
    => /\ calibration'.points = Append(pts, lastOp'.point)
       /\ vanishingPoint' # NULL
       /\ OnLine(vanishingPoint', calibration'.line1)
       /\ OnLine(vanishingPoint', calibration'.line2)
       /\ mode' = "offside"
       /\ parallelError' = FALSE
       /\ calibration'.points = <<Pt(0, 0), Pt(10, 10), Pt(0, 10), Pt(10, 0)>>
            => vanishingPoint' = Pt(5, 5)

C3_Calibrated == [][C3_FourthPoint]_vars

C3_Witness ==
    /\ lastOp.op = "add-point"
    /\ lastOp.points = 3
    /\ calibration.points = <<Pt(0, 0), Pt(10, 10), Pt(0, 10), Pt(10, 0)>>
    /\ vanishingPoint = Pt(5, 5)
    /\ mode = "offside"
    /\ ~parallelError

(***************************************************************************)
(* C4  add-point supplying the 4th point with line1 and line2 parallel is  *)
(* a state, not an error: the parallel-error flag becomes true, the mode   *)
(* stays calibration, the vanishing point stays null, no ray is created    *)
(* and the 4 points are stored.                                            *)
(***************************************************************************)
C4_ParallelFourthPoint ==
    LET pts == calibration.points IN
    (/\ AddPointStep
     /\ mode = "calibration"
     /\ Len(pts) = 3
     /\ Parallel(Line(pts[1], pts[2]), Line(pts[3], lastOp'.point)))
    => /\ ~crashed'
       /\ parallelError' = TRUE
       /\ mode' = "calibration"
       /\ vanishingPoint = NULL /\ vanishingPoint' = NULL
       /\ offsideLines' = offsideLines
       /\ calibration'.points = Append(pts, lastOp'.point)

C4_ParallelIsAState == [][C4_ParallelFourthPoint]_vars

\* The four clicks (0,0), (10,0), (0,10), (10,10).
C4_Witness ==
    /\ lastOp.op = "add-point"
    /\ lastOp.points = 3
    /\ calibration.points = <<Pt(0, 0), Pt(10, 0), Pt(0, 10), Pt(10, 10)>>
    /\ parallelError
    /\ mode = "calibration"
    /\ vanishingPoint = NULL

(***************************************************************************)
(* C5  add-point in calibration mode with 4 calibration points already     *)
(* present is a silent no-op: points, line1, line2, vanishing point,       *)
(* parallel-error flag, mode and rays are unchanged, and nothing is        *)
(* raised.                                                                 *)
(***************************************************************************)
C5_FifthPoint ==
    (AddPointStep /\ mode = "calibration" /\ Len(calibration.points) = 4)
    => /\ UNCHANGED <<calibration, vanishingPoint, parallelError, mode, offsideLines>>
       /\ ~crashed'

C5_FifthPointIsNoOp == [][C5_FifthPoint]_vars

\* A 5th click was processed while the 4 points of a failed (parallel)
\* calibration were in place.
C5_Witness ==
    /\ lastOp.op = "add-point"
    /\ lastOp.points = 4
    /\ mode = "calibration"
    /\ Len(calibration.points) = 4
    /\ parallelError

(***************************************************************************)
(* C6  (as stated) In every reachable state the vanishing point is null    *)
(* whenever line1 or line2 is absent or the current line1 and line2 are    *)
(* parallel within tolerance.                                              *)
(***************************************************************************)
C6_NullWheneverParallel ==
    (\/ calibration.line1 = NULL
     \/ calibration.line2 = NULL
     \/ /\ Defined(calibration.line1) /\ Defined(calibration.line2)
        /\ Parallel(calibration.line1, calibration.line2))
    => vanishingPoint = NULL

LinesParallel(cal) ==
    /\ Defined(cal.line1) /\ Defined(cal.line2)
    /\ Parallel(cal.line1, cal.line2)

C6_LineAbsent ==
    (calibration.line1 = NULL \/ calibration.line2 = NULL) => vanishingPoint = NULL

C6_ParallelStep ==
    LinesParallel(calibration') =>
        /\ parallelError'
        /\ vanishingPoint' = NULL \/ vanishingPoint' = vanishingPoint
        /\ (AddPointStep /\ ~LinesParallel(calibration)) => vanishingPoint' = NULL

(***************************************************************************)
(* C6  (amended) The vanishing point is null whenever line1 or line2 is    *)
(* absent.  While both lines are present and parallel within tolerance the *)
(* parallel-error flag is set and the vanishing point is null or the value *)
(* it had before the step that left the lines parallel (the last good      *)
(* value, kept by commit-drag); it is null when the 4th add-point made     *)
(* them parallel.                                                          *)
(***************************************************************************)
C6_NullOrLastGood == []C6_LineAbsent /\ [][C6_ParallelStep]_vars

\* A commit-drag made the lines parallel and the earlier vanishing point
\* is still in place.
C6_Witness ==
    /\ lastOp.op = "commit-drag"
    /\ lastOp.source.kind = "calibration"
    /\ LinesParallel(calibration)
    /\ parallelError
    /\ vanishingPoint # NULL

(***************************************************************************)
(* C7  commit-drag with the index i of an existing calibration point       *)
(* replaces points[i] by the drag's currentPoint, leaves every other       *)
(* calibration point unchanged, re-derives line1/line2 from the new        *)
(* points and, when 4 points exist and the re-derived lines are not        *)
(* parallel, sets the vanishing point to the intersection of the           *)
(* re-derived lines and clears the parallel-error flag; rays and mode are  *)
(* unchanged.                                                              *)
(***************************************************************************)
C7_CommitDrag ==
    (/\ CommitDragStep
     /\ lastOp'.source.kind = "calibration"
     /\ lastOp'.source.index < Len(calibration.points))
    => LET i == lastOp'.source.index + 1
           pts == calibration.points
           new == calibration'.points
       IN  /\ Len(new) = Len(pts)
           /\ new[i] = lastOp'.point
           /\ \A k \in 1..Len(pts) : k # i => new[k] = pts[k]
           /\ calibration'.line1 =
                IF Len(new) >= 2 THEN [p1 |-> new[1], p2 |-> new[2]] ELSE NULL
           /\ calibration'.line2 =
                IF Len(new) >= 4 THEN [p1 |-> new[3], p2 |-> new[4]] ELSE NULL
           /\ (Len(new) = 4 /\ ~Parallel(calibration'.line1, calibration'.line2))
                => /\ vanishingPoint' # NULL
                   /\ OnLine(vanishingPoint', calibration'.line1)
                   /\ OnLine(vanishingPoint', calibration'.line2)
                   /\ parallelError' = FALSE
           /\ offsideLines' = offsideLines
           /\ mode' = mode

C7_DragRederivation == [][C7_CommitDrag]_vars

\* Point 0 of the calibration (0,0),(10,10),(0,10),(10,0) was dragged to
\* (10,0): the vanishing point moved from (5,5) to (10,0).
C7_Witness ==
    /\ lastOp.op = "commit-drag"
    /\ lastOp.source = [kind |-> "calibration", index |-> 0]
    /\ calibration.points = <<Pt(10, 0), Pt(10, 10), Pt(0, 10), Pt(10, 0)>>
    /\ vanishingPoint = Pt(10, 0)
    /\ mode = "offside"

(***************************************************************************)
(* C8  From a state with 4 calibration points, parallel-error = true and   *)
(* mode = calibration, committing a drag of a calibration point that makes *)
(* line1 and line2 non-parallel clears the flag, sets the vanishing point, *)
(* and the mode becomes offside (so a following tap creates a ray).        *)
(***************************************************************************)
C8_DragRecovers ==
    (/\ CommitDragStep
     /\ lastOp'.source.kind = "calibration"
     /\ Len(calibration.points) = 4
     /\ parallelError
     /\ mode = "calibration"
     /\ Len(calibration'.points) = 4
     /\ ~LinesParallel(calibration'))
    => /\ parallelError' = FALSE
       /\ vanishingPoint' # NULL
       /\ mode' = "offside"

C8_RecoverableByDrag == [][C8_DragRecovers]_vars

(***************************************************************************)
(* C9  add-point creates a ray only in offside mode with a vanishing       *)
(* point: it then appends exactly one ray with a fresh id, throughPoint    *)
(* equal to the clicked image point and the colour at palette position     *)
(* (number of rays before the call) mod 12; every other ray, the           *)
(* calibration, the vanishing point and the mode are unchanged.            *)
(***************************************************************************)
C9_AddRay ==
    AddPointStep =>
        IF mode = "offside" /\ vanishingPoint # NULL
        THEN LET n == Len(offsideLines)
                 new == offsideLines'[n + 1]
             IN  /\ Len(offsideLines') = n + 1
                 /\ SubSeq(offsideLines', 1, n) = offsideLines
                 /\ new.id \notin LineIds(offsideLines)
                 /\ new.id > uuidCount
                 /\ new.throughPoint = lastOp'.point
                 /\ pendingTouchRef # NULL =>
                      imageToScreen(new.throughPoint, computeLayout.scale, computeLayout.offset)
                        = pendingTouchRef.screenPoint
                 /\ new.color = OFFSIDE_COLORS[(n % 12) + 1]
                 /\ UNCHANGED <<calibration, vanishingPoint, mode, parallelError>>
        ELSE offsideLines' = offsideLines

C9_RayCreation == [][C9_AddRay]_vars

\* The 13th ray of a session: the palette has wrapped to its first colour.
C9_Witness ==
    /\ lastOp.op = "add-point"
    /\ lastOp.lines = 12
    /\ Len(offsideLines) = 13
    /\ offsideLines[13].color = OFFSIDE_COLORS[1]
    /\ offsideLines[13].throughPoint = Pt(60, 0)
    /\ offsideLines[12].color = OFFSIDE_COLORS[12]

(***************************************************************************)
(* C10  Deleting a ray by id removes exactly that ray: every other ray     *)
(* keeps its id, colour and throughPoint and the rays keep their relative  *)
(* order; calibration, vanishing point and mode are unchanged.             *)
(***************************************************************************)
C10_DeleteRay ==
    lastOp'.op = "delete-ray" =>
        /\ \E k \in 1..Len(offsideLines) :
              /\ offsideLines[k].id = lastOp'.id
              /\ offsideLines' = SubSeq(offsideLines, 1, k - 1)
                                   \o SubSeq(offsideLines, k + 1, Len(offsideLines))
        /\ UNCHANGED <<calibration, vanishingPoint, mode, parallelError>>

C10_DeleteExactlyOne == [][C10_DeleteRay]_vars

\* The second of three rays was deleted; the first and third remain as
\* they were created.
C10_Witness ==
    /\ lastOp = [op |-> "delete-ray", id |-> 2]
    /\ offsideLines =
         <<[id |-> 1, throughPoint |-> Pt(20, 0), color |-> OFFSIDE_COLORS[1]],
           [id |-> 3, throughPoint |-> Pt(20, 20), color |-> OFFSIDE_COLORS[3]]>>
    /\ mode = "offside"
    /\ vanishingPoint = Pt(5, 5)

(***************************************************************************)
(* C11  reset-calibration, on either page and from any state in which an   *)
(* image is loaded, leaves mode = calibration, no calibration points,      *)
(* line1 = line2 = null, no vanishing point, no offside lines and the      *)
(* parallel-error flag cleared.                                            *)
(***************************************************************************)
C11_Reset ==
    lastOp'.op = "reset-calibration" =>
        /\ image # NULL
        /\ image' = image
        /\ mode' = "calibration"
        /\ calibration'.points = <<>>
        /\ calibration'.line1 = NULL
        /\ calibration'.line2 = NULL
        /\ vanishingPoint' = NULL
        /\ offsideLines' = <<>>
        /\ parallelError' = FALSE

C11_ResetCalibration == [][C11_Reset]_vars

\* Reset Calibration was pressed on the shared page while zoomed in; the
\* stored analysis (4 points, vanishing point, 2 lines) is gone.
C11_Witness ==
    /\ lastOp.op = "reset-calibration"
    /\ image = SharedImage
    /\ mode = "calibration"
    /\ offsideLines = <<>>
    /\ view.zoom = R(5)

\* The same on Home, after a calibration and a ray drawn by taps.
C11_WitnessHome ==
    /\ lastOp.op = "reset-calibration"
    /\ image = TheImage
    /\ calibration = INITIAL_CALIBRATION
    /\ uuidCount = 1

(***************************************************************************)
(* C12  clear-rays empties the offside lines and changes nothing else:     *)
(* mode, calibration points, line1, line2, vanishing point, parallel-error *)
(* flag and the view transform (zoom, pan) are as before.                  *)
(***************************************************************************)
C12_Clear ==
    lastOp'.op = "clear-rays" =>
        /\ offsideLines # <<>>
        /\ offsideLines' = <<>>
        /\ UNCHANGED <<mode, calibration, vanishingPoint, parallelError, view, image>>

C12_ClearRays == [][C12_Clear]_vars

\* Home: the one ray of a calibrated session was cleared while the view
\* was zoomed in and panned.
C12_Witness ==
    /\ lastOp.op = "clear-rays"
    /\ image = TheImage
    /\ mode = "offside"
    /\ vanishingPoint = Pt(5, 5)
    /\ Len(calibration.points) = 4
    /\ RLt(R(1), view.zoom)
    /\ view.pan # Pt(0, 0)

(***************************************************************************)
(* C13  full-reset (the "New Image" button), from any state, discards the  *)
(* image and leaves mode = upload with the calibration empty, no vanishing *)
(* point, no offside lines and the parallel-error flag cleared.            *)
(***************************************************************************)
C13_Reset ==
    lastOp'.op = "full-reset" =>
        /\ image' = NULL
        /\ mode' = "upload"
        /\ calibration' = INITIAL_CALIBRATION
        /\ vanishingPoint' = NULL
        /\ offsideLines' = <<>>
        /\ parallelError' = FALSE

C13_FullReset == [][C13_Reset]_vars

(***************************************************************************)
(* C14  In every reachable state the zoom level lies in [1, 5], whatever   *)
(* wheel events, pinch moves (a pinch whose fingers start on the same spot *)
(* included), zoomIn, zoomOut and resetView came before.                   *)
(***************************************************************************)
C14_ZoomInRange ==
    /\ RLe(R(MIN_ZOOM), view.zoom)
    /\ RLe(view.zoom, R(MAX_ZOOM))

(***************************************************************************)
(* C15  Whenever zoom = 1 the pan is {0, 0}: clampPan(p, 1) is {0, 0} for  *)
(* every candidate pan p, and no sequence of zoom-in, pan and zoom-out     *)
(* reaches zoom = 1 with a non-zero pan.                                   *)
(***************************************************************************)
\* Pans handed to clampPan: none, small, beyond every bound.
CandidatePans ==
    {Pt(0, 0), Pt(10, -5), Pt(-90, -30), Pt(2000, 2000), Pt(-2000, -2000),
     Pt(2000, -2000)}

C15_NoPanAtZoomOne ==
    (image # NULL /\ StrictEq(view.zoom, R(1))) =>
        /\ view.pan = Pt(0, 0)
        /\ \A p \in CandidatePans : clampPan(p, R(1)) = Pt(0, 0)

(***************************************************************************)
(* C16  For every candidate pan and every zoom in [1, 5], clampPan returns *)
(* a pan under which, on each axis, at least 20% of the scaled image's     *)
(* extent (image size * base scale * zoom) lies inside the canvas.         *)
(***************************************************************************)
\* Length of the part of [lo, lo + len] inside [0, size].
VisibleExtent(lo, len, size) ==
    RMax(R(0), RSub(RMin(RAdd(lo, len), size), RMax(lo, R(0))))

C16_Visible(pan, zoom) ==
    LET eff == EffectiveTransform([zoom |-> zoom, pan |-> pan])
        imgW == RMul(R(ImageWidth), eff.scale)
        imgH == RMul(R(ImageHeight), eff.scale)
    IN  /\ RLe(RMul(ClampMargin, imgW),
               VisibleExtent(eff.offset.x, imgW, layoutRef.canvasWidth))
        /\ RLe(RMul(ClampMargin, imgH),
               VisibleExtent(eff.offset.y, imgH, layoutRef.canvasHeight))

C16_TwentyPercentOfImage ==
    (image # NULL /\ RLe(R(MIN_ZOOM), view.zoom) /\ RLe(view.zoom, R(MAX_ZOOM))) =>
        \A p \in CandidatePans : C16_Visible(clampPan(p, view.zoom), view.zoom)

(***************************************************************************)
(* C17  clampPan is idempotent: clampPan(clampPan(p, z), z) =              *)
(* clampPan(p, z) for every candidate pan p and every zoom z the session   *)
(* reaches (layout and image fixed), and the lower pan bound never exceeds *)
(* the upper bound.                                                        *)
(***************************************************************************)
C17_ClampIdempotent ==
    image # NULL =>
        /\ \A p \in CandidatePans \cup {view.pan} :
              clampPan(clampPan(p, view.zoom), view.zoom) = clampPan(p, view.zoom)
        /\ ~RLt(panBounds(view.zoom).maxPanX, panBounds(view.zoom).minPanX)
        /\ ~RLt(panBounds(view.zoom).maxPanY, panBounds(view.zoom).minPanY)

\* Zoomed in to 5/2 and panned: the candidate beyond every bound is
\* clamped to a bound, and stays there.
C17_Witness ==
    /\ image # NULL
    /\ view.zoom = <<5, 2>>
    /\ view.pan # Pt(0, 0)
    /\ clampPan(Pt(2000, 2000), view.zoom) # Pt(2000, 2000)
    /\ clampPan(Pt(2000, 2000), view.zoom).x = panBounds(view.zoom).maxPanX
    /\ clampPan(Pt(-2000, -2000), view.zoom).y = panBounds(view.zoom).minPanY

(***************************************************************************)
(* C18  Whenever the loaded image changes, the view transform is reset to  *)
(* zoom = 1, pan = {0, 0} (the zoom level shown is viewRef's zoom),        *)
(* whatever zoom and pan the previous image had.                           *)
(***************************************************************************)
C18_ImageChange == image' # image => view' = IdentityView

C18_ViewResetOnImageChange == [][C18_ImageChange]_vars

\* The image was discarded while zoomed in to 5: the view the next image
\* starts from is the identity.
C18_Witness ==
    /\ lastOp = [op |-> "full-reset", zoom |-> R(5)]
    /\ image = NULL
    /\ view = IdentityView

(***************************************************************************)
(* C19  lineIntersection is symmetric in its arguments: for the lines a, b *)
(* through any four grid points, lineIntersection(a, b) and                *)
(* lineIntersection(b, a) are the same point when the lines are not        *)
(* parallel, and both calls agree on whether they are parallel.            *)
(***************************************************************************)
C19_Symmetric ==
    LET a == calibration.line1
        b == calibration.line2
    IN  /\ (lineIntersection(a, b) = NULL) <=> (lineIntersection(b, a) = NULL)
        /\ lineIntersection(a, b) = lineIntersection(b, a)
        /\ lastOp.op = "lineIntersection" =>
              vanishingPoint = lineIntersection(a, b)

\* Both orders of (0,0)-(10,5) and (5,10)-(10,0) have been computed and
\* gave the point (8, 4).
C19_Witness ==
    /\ lastOp = [op |-> "lineIntersection", a |-> 2, b |-> 1]
    /\ calibration.line1 = Line(Pt(0, 0), Pt(10, 5))
    /\ calibration.line2 = Line(Pt(5, 10), Pt(10, 0))
    /\ vanishingPoint = Pt(8, 4)
    /\ lineIntersection(calibration.line1, calibration.line2) = Pt(8, 4)

(***************************************************************************)
(* C20  lineIntersection returns null exactly when the determinant         *)
(* (x1-x2)(y3-y4) - (y1-y2)(x3-x4) of its integer inputs is zero, and      *)
(* otherwise the one point lying on both infinite lines;                   *)
(* (0,0)-(10,0) with (0,5)-(10,5) gives null and (0,0)-(10,10) with        *)
(* (0,10)-(10,0) gives (5,5).                                              *)
(***************************************************************************)
\* The determinant, on integer coordinates.
Determinant(a, b) ==
    (a.p1.x[1] - a.p2.x[1]) * (b.p1.y[1] - b.p2.y[1])
      - (a.p1.y[1] - a.p2.y[1]) * (b.p1.x[1] - b.p2.x[1])

C20_Returned(a, b, v) ==
    /\ (v = NULL) <=> (Determinant(a, b) = 0)
    /\ v # NULL =>
          /\ OnLine(v, a)
          /\ OnLine(v, b)
          /\ \A q \in GridPoints : (OnLine(q, a) /\ OnLine(q, b)) => q = v

C20_Intersection ==
    /\ C20_Returned(calibration.line1, calibration.line2,
                    lineIntersection(calibration.line1, calibration.line2))
    /\ lastOp.op = "lineIntersection" =>
          vanishingPoint = IF lastOp.a = 1
                           THEN lineIntersection(calibration.line1, calibration.line2)
                           ELSE lineIntersection(calibration.line2, calibration.line1)
    /\ lineIntersection(Line(Pt(0, 0), Pt(10, 0)), Line(Pt(0, 5), Pt(10, 5))) = NULL
    /\ lineIntersection(Line(Pt(0, 0), Pt(10, 10)), Line(Pt(0, 10), Pt(10, 0))) = Pt(5, 5)

\* The known intersection has been computed: (5, 5).
C20_Witness ==
    /\ lastOp = [op |-> "lineIntersection", a |-> 1, b |-> 2]
    /\ calibration.line1 = Line(Pt(0, 0), Pt(10, 10))
    /\ calibration.line2 = Line(Pt(0, 10), Pt(10, 0))
    /\ vanishingPoint = Pt(5, 5)

\* The parallel pair has been computed: null.
C20_WitnessParallel ==
    /\ lastOp = [op |-> "lineIntersection", a |-> 1, b |-> 2]
    /\ calibration.line1 = Line(Pt(0, 0), Pt(10, 0))
    /\ calibration.line2 = Line(Pt(0, 5), Pt(10, 5))
    /\ vanishingPoint = NULL

(***************************************************************************)
(* C21  screenToImage is the inverse of imageToScreen: for every point p,  *)
(* every scale > 0 and every offset,                                       *)
(* screenToImage(imageToScreen(p, scale, offset), scale, offset) = p.      *)
(***************************************************************************)
C21_RoundTrip ==
    /\ \A p \in TransformPoints :
          screenToImage(imageToScreen(p, layoutRef.scale, layoutRef.offset),
                        layoutRef.scale, layoutRef.offset) = p
    /\ lastOp.op = "screenToImage" => activeDrag.currentPoint = activeDrag.originalPoint

\* (-10, 5/2) went to the screen at scale 5/2, offset (-7, 1/2), i.e. to
\* (-32, 27/4), and came back.
C21_Witness ==
    /\ lastOp.op = "screenToImage"
    /\ layoutRef.scale = <<5, 2>>
    /\ layoutRef.offset = [x |-> R(-7), y |-> <<1, 2>>]
    /\ activeDrag.originalPoint = [x |-> R(-10), y |-> <<5, 2>>]
    /\ activeDrag.currentPoint = [x |-> R(-10), y |-> <<5, 2>>]
    /\ imageToScreen(activeDrag.originalPoint, layoutRef.scale, layoutRef.offset)
         = [x |-> R(-32), y |-> <<27, 4>>]

(***************************************************************************)
(* C22  Zoom anchoring: when the pan returned by                           *)
(* computePanForZoomAroundPoint is applied unclamped together with the new *)
(* zoom, the image point that was under the focal screen point in the old  *)
(* effective transform is under the same screen point in the new one.      *)
(***************************************************************************)
C22_Anchored ==
    lastOp'.op = "zoom-around" =>
        LET focal == lastOp'.focal
            old == EffectiveTransform(view)
            new == EffectiveTransform(view')
        IN  imageToScreen(screenToImage(focal, old.scale, old.offset),
                          new.scale, new.offset) = focal

C22_ZoomAnchoring == [][C22_Anchored]_vars

\* Zoomed from 5 to 1 (ratio 1/5) around an off-centre point of a panned
\* view.
C22_Witness ==
    /\ lastOp = [op |-> "zoom-around", focal |-> [x |-> R(37), y |-> <<161, 2>>]]
    /\ view.zoom = R(1)
    /\ view.pan # Pt(0, 0)
    /\ layoutRef.scale = R(3)
    /\ layoutRef.offset = Pt(0, 15)

(***************************************************************************)
(* C23  No sequence of ordinary input (touch events and the toolbar         *)
(* operations, in any interleaving, a toolbar operation during a drag      *)
(* included) drives the core into an exception or an undefined access:     *)
(* no exception escapes a handler, a state updater or the render pass, and *)
(* the calibration never holds a missing point or a line with a missing    *)
(* endpoint.                                                               *)
(***************************************************************************)
C23_NoException ==
    /\ ~crashed
    /\ \A k \in 1..Len(calibration.points) : calibration.points[k] # undefined
    /\ calibration.line1 # NULL => ~LineThrows(calibration.line1)
    /\ calibration.line2 # NULL => ~LineThrows(calibration.line2)

(***************************************************************************)
(* C24  While a point drag is in progress, with a finger or the mouse and  *)
(* over any number of moves, the moves do not mutate the data model:       *)
(* mode, calibration points, line1, line2, vanishing point, parallel-error *)
(* flag and rays keep their values; a move changes only the DragState's    *)
(* currentPoint (its source stays, and so does its originalPoint as long   *)
(* as the dragged point or ray is in the data model), and the vanishing    *)
(* point changes only on a step that reports an operation (the commit at   *)
(* release among them), never on a move.                                   *)
(***************************************************************************)
C24_DragMove == activeDrag' # NULL /\ activeDrag' # activeDrag

C24_SourcePresent ==
    IF activeDrag.source.kind = "calibration"
    THEN activeDrag.source.index + 1 <= Len(calibration.points)
    ELSE activeDrag.source.lineId \in LineIds(offsideLines)

C24_Preview ==
    /\ C24_DragMove =>
          /\ UNCHANGED dataVars
          /\ lastOp' = NoOp
          /\ activeDrag # NULL => activeDrag'.source = activeDrag.source
          /\ (activeDrag # NULL /\ C24_SourcePresent) =>
                 activeDrag'.originalPoint = activeDrag.originalPoint
    /\ vanishingPoint' # vanishingPoint => lastOp' # NoOp

C24_DragPreviewOnly == [][C24_Preview]_vars

\* A drag of a calibration point in offside mode whose previewed
\* position differs from the stored one: the vanishing point still stands.
C24_Witness ==
    /\ activeDrag # NULL
    /\ activeDrag.source.kind = "calibration"
    /\ mode = "offside"
    /\ vanishingPoint # NULL
    /\ activeDrag.source.index + 1 <= Len(calibration.points)
    /\ activeDrag.currentPoint # calibration.points[activeDrag.source.index + 1]

\* The same with a finger.
C24_WitnessTouch ==
    /\ C24_Witness
    /\ pendingTouchRef # NULL
    /\ pendingTouchRef.gesture = "drag"

(***************************************************************************)
(* C25  When the pointer (the mouse with the button held, or a finger)     *)
(* leaves the canvas during a drag or a pan, the gesture is cancelled      *)
(* without committing: off the canvas no DragState and no drag or pan      *)
(* tracking is left, the step that leaves changes nothing of the data      *)
(* model, and no commit-drag is emitted while no gesture is tracked, so    *)
(* neither then nor on the release that ends the gesture.                  *)
(***************************************************************************)
C25_InCanvas(sp) ==
    /\ RLe(R(0), sp.x) /\ RLe(sp.x, layoutRef.canvasWidth)
    /\ RLe(R(0), sp.y) /\ RLe(sp.y, layoutRef.canvasHeight)

\* Where the pointer of the DragState is on the screen.
C25_DragPosition ==
    imageToScreen(activeDrag.currentPoint, getEffectiveTransform.scale,
                  getEffectiveTransform.offset)

C25_MouseCancelled ==
    pointer.button = "outside" =>
        activeDrag = NULL /\ mouseDragRef = NULL /\ panDragRef = NULL

C25_FingerCancelled ==
    (pendingTouchRef # NULL /\ activeDrag # NULL) => C25_InCanvas(C25_DragPosition)

C25_LeaveStep ==
    /\ pointer'.button = "outside" =>
          /\ activeDrag' = NULL /\ mouseDragRef' = NULL /\ panDragRef' = NULL
          /\ UNCHANGED dataVars
          /\ lastOp' = NoOp
    /\ C25_MouseCancelled /\ C25_FingerCancelled
    /\ (mouseDragRef = NULL /\ pendingTouchRef = NULL) => ~CommitDragStep
    /\ (CommitDragStep /\ activeDrag # NULL) => C25_InCanvas(C25_DragPosition)

C25_LeaveCancels == [][C25_LeaveStep]_vars

\* The part of C25 about the mouse.
C25_MouseLeaveStep ==
    /\ pointer'.button = "outside" =>
          /\ activeDrag' = NULL /\ mouseDragRef' = NULL /\ panDragRef' = NULL
          /\ UNCHANGED dataVars
          /\ lastOp' = NoOp
    /\ C25_MouseCancelled
    /\ (mouseDragRef = NULL /\ pendingTouchRef = NULL) => ~CommitDragStep

C25_MouseLeaveCancels == [][C25_MouseLeaveStep]_vars

\* A mouse drag cancelled by leaving the canvas.
C25_MouseWitness ==
    /\ pointer.button = "outside"
    /\ justDraggedRef

(***************************************************************************)
(* C26  Pan, pinch, wheel zoom, zoomIn, zoomOut and resetView change only  *)
(* the view transform: every step that changes zoom or pan without         *)
(* reporting an operation (image load and full reset report one) leaves    *)
(* the image, mode, calibration points and lines, vanishing point,         *)
(* parallel-error flag and rays unchanged; and the pan set by a step of a  *)
(* pan gesture, with a finger or the mouse, is a value clampPan returns    *)
(* for the current zoom.                                                   *)
(***************************************************************************)
C26_ViewStep == view' # view /\ lastOp' = NoOp

C26_PanStep ==
    /\ view' # view
    /\ \/ pendingTouchRef' # NULL /\ pendingTouchRef'.gesture = "pan"
       \/ panDragRef # NULL /\ pointer'.button = "down"

C26_Frame ==
    /\ view' # view => lastOp'.op \in {"none", "image-load", "full-reset"}
    /\ C26_ViewStep => UNCHANGED <<homeVars, uuidCount>>
    /\ C26_PanStep =>
          /\ view'.zoom = view.zoom
          /\ view'.pan = clampPan(view'.pan, view.zoom)

C26_ViewOnly == [][C26_Frame]_vars

\* A mouse pan of a zoomed view with calibration and rays present, which
\* clampPan cut short.
C26_Witness ==
    /\ panDragRef # NULL
    /\ justPannedRef
    /\ view.pan # Pt(0, 0)
    /\ view.pan # [x |-> RAdd(panDragRef.startPan.x, RSub(pointer.at.x, panDragRef.startScreen.x)),
                   y |-> RAdd(panDragRef.startPan.y, RSub(pointer.at.y, panDragRef.startScreen.y))]
    /\ Len(calibration.points) = 4
    /\ offsideLines # <<>>

\* A finger pan straight up that clampPan cut short.
C26_WitnessTouch ==
    /\ pendingTouchRef # NULL
    /\ pendingTouchRef.gesture = "pan"
    /\ view.pan # Pt(0, 0)
    /\ view.pan # [x |-> pendingTouchRef.initialPan.x,
                   y |-> RAdd(pendingTouchRef.initialPan.y,
                              RSub(PanFar.y, pendingTouchRef.screenPoint.y))]
    /\ view.pan.x = pendingTouchRef.initialPan.x
    /\ offsideLines # <<>>

\* A pinch that changed the zoom.
C26_WitnessPinch ==
    /\ pinchRef # NULL
    /\ view.zoom # R(1)
    /\ offsideLines # <<>>

(***************************************************************************)
(* C27  With a finger and with the mouse, a release adds a point only if   *)
(* the gesture was still a tap candidate (it never moved farther than the  *)
(* drag threshold), less than 300 ms passed between press and release, and *)
(* the press hit no calibration point and no through-point; the point      *)
(* added is the image point under the press.  A press held for 300 ms or   *)
(* more, and a press within the hit radius of a point, add nothing.        *)
(***************************************************************************)
C27_TouchTap ==
    /\ pendingTouchRef.gesture = "none"
    /\ pendingTouchRef.hitTarget = NULL
    /\ \A e \in ElapsedTimes : handleCanvasTouchEnd(e) => e < TAP_MAX_DURATION
    /\ lastOp'.point = pendingTouchRef.imagePoint

C27_MouseTap ==
    /\ RLe(Hypot2(pointer.at, pointer.press), R(DRAG_THRESHOLD * DRAG_THRESHOLD))
    /\ pointer.heldFor < TAP_MAX_DURATION
    /\ hitTestPoints(pointer.press) = NULL
    /\ lastOp'.point = getImagePointFromScreen(pointer.press)

C27_AddPoint ==
    AddPointStep =>
        \/ pendingTouchRef # NULL /\ C27_TouchTap
        \/ pointer.button = "click" /\ C27_MouseTap

C27_TapOnly == [][C27_AddPoint]_vars

\* The part of C27 about the touch screen.
C27_TouchAddPoint == (AddPointStep /\ pointer.button # "click") => pendingTouchRef # NULL /\ C27_TouchTap

C27_TouchTapOnly == [][C27_TouchAddPoint]_vars

\* The click after a long press with the mouse is about to be delivered.
C27_LongPress ==
    /\ pointer.button = "click"
    /\ pointer.heldFor >= TAP_MAX_DURATION
    /\ pointer.at = pointer.press
    /\ hitTestPoints(pointer.press) = NULL
    /\ ~justDraggedRef /\ ~justPannedRef

(***************************************************************************)
(* C28  A gesture of one pointer (the mouse or one finger) that starts on  *)
(* empty space while zoom = 1 and moves farther than the drag threshold    *)
(* of 8 screen px is inert: from then on no step of the gesture, its       *)
(* release included, changes the data model or the view, so the release    *)
(* adds no calibration point and no ray.                                   *)
(***************************************************************************)
\* The finger's gesture has been suppressed after such a move.
C28_TouchMoved ==
    /\ pendingTouchRef # NULL
    /\ pinchRef = NULL
    /\ pendingTouchRef.hitTarget = NULL
    /\ pendingTouchRef.gesture = "pinch"
    /\ view.zoom = R(1)

\* The mouse, pressed on empty space, is farther than the threshold from
\* the press, or has just been released there.
C28_MouseMoved ==
    /\ pointer.button \in {"down", "click"}
    /\ mouseDragRef = NULL /\ panDragRef = NULL
    /\ ~justDraggedRef /\ ~justPannedRef
    /\ hitTestPoints(pointer.press) = NULL
    /\ view.zoom = R(1)
    /\ RLt(R(DRAG_THRESHOLD * DRAG_THRESHOLD), Hypot2(pointer.at, pointer.press))

\* A step of the gesture itself, not of the toolbar.
C28_GestureStep == lastOp'.op \in {"none", "add-point", "commit-drag"}

C28_Step ==
    ((C28_TouchMoved \/ C28_MouseMoved) /\ C28_GestureStep) => UNCHANGED <<dataVars, view>>

C28_Inert == [][C28_Step]_vars

\* The part of C28 about the touch screen.
C28_TouchStep == (C28_TouchMoved /\ C28_GestureStep) => UNCHANGED <<dataVars, view>>

C28_TouchInert == [][C28_TouchStep]_vars

(***************************************************************************)
(* C29  When a second finger touches down while a one-finger tap           *)
(* candidate, drag or pan is in progress, that gesture is abandoned and a  *)
(* pinch takes over: the DragState is discarded without a commit, and      *)
(* from then until all fingers are lifted the gesture stays a pinch, no    *)
(* DragState appears, and no step adds a point or commits a drag,          *)
(* however the fingers move and lift.                                      *)
(***************************************************************************)
C29_SecondFingerDown == pendingTouchRef # NULL /\ pinchRef = NULL /\ pinchRef' # NULL

C29_Step ==
    /\ C29_SecondFingerDown =>
          /\ pendingTouchRef' # NULL /\ pendingTouchRef'.gesture = "pinch"
          /\ activeDrag' = NULL
          /\ UNCHANGED dataVars
          /\ lastOp' = NoOp
    /\ pinchRef # NULL =>
          /\ ~AddPointStep /\ ~CommitDragStep
          /\ UNCHANGED dataVars
          /\ pendingTouchRef' # NULL =>
                 pendingTouchRef'.gesture = "pinch" /\ activeDrag' = NULL

C29_PinchSupersedes == [][C29_Step]_vars

\* A second finger has come down on a press that had landed on a point.
C29_Witness ==
    /\ pinchRef # NULL
    /\ pendingTouchRef # NULL
    /\ pendingTouchRef.hitTarget # NULL

\* A second finger has come down on a pan that had moved the view.
C29_WitnessPan ==
    /\ pinchRef # NULL
    /\ pendingTouchRef # NULL
    /\ pendingTouchRef.screenPoint = PanStart
    /\ pendingTouchRef.initialPan # pinchRef.initialPan

\* A second finger has come down on a tap candidate on empty space.
C29_WitnessTap ==
    /\ pinchRef # NULL
    /\ pendingTouchRef # NULL
    /\ pendingTouchRef.hitTarget = NULL
    /\ pendingTouchRef.screenPoint \in Positions
    /\ view = IdentityView

(***************************************************************************)
(* C30  A gesture that ended as a pan or a pinch emits nothing to the data *)
(* model on release, and the click of that release adds no point: the      *)
(* touch release queues no click, the click after a mouse pan is           *)
(* swallowed.  Likewise the click that follows a committed mouse drag      *)
(* adds no point.                                                          *)
(***************************************************************************)
C30_TouchRelease ==
    /\ pendingTouchRef # NULL
    /\ pendingTouchRef.gesture \in {"pan", "pinch"}
    /\ pendingTouchRef' = NULL

C30_MousePanRelease ==
    /\ panDragRef # NULL
    /\ justPannedRef
    /\ pointer'.button = "click"

C30_ClickAfterGesture ==
    /\ pointer.button = "click"
    /\ pointer'.button = "up"
    /\ justPannedRef \/ lastOp.op = "commit-drag"

C30_Step ==
    /\ C30_TouchRelease =>
          /\ UNCHANGED dataVars
          /\ lastOp' = NoOp
          /\ pointer' = PointerUp
    /\ C30_MousePanRelease => UNCHANGED dataVars /\ lastOp' = NoOp
    /\ C30_ClickAfterGesture => UNCHANGED dataVars /\ lastOp' = NoOp

C30_ReleaseEmitsNothing == [][C30_Step]_vars

\* The click after a mouse pan, over empty space.
C30_Witness ==
    /\ pointer.button = "click"
    /\ justPannedRef
    /\ panDragRef = NULL
    /\ view.pan # Pt(0, 0)
    /\ hitTestPoints(pointer.at) = NULL

\* The click after a committed mouse drag, over empty space.
C30_WitnessDrag ==
    /\ pointer.button = "click"
    /\ lastOp.op = "commit-drag"
    /\ justDraggedRef

\* A finger pan and a pinch about to be released.
C30_WitnessTouch ==
    /\ pendingTouchRef # NULL
    /\ pendingTouchRef.gesture = "pan"
    /\ view.pan # Pt(0, 0)

C30_WitnessPinch ==
    /\ pendingTouchRef # NULL
    /\ pendingTouchRef.gesture = "pinch"
    /\ pinchRef # NULL
    /\ view.zoom # pinchRef.initialZoom

(***************************************************************************)
(* C31  After a cancellation (the pointer has left the canvas during a     *)
(* drag or a pan) and whenever the input is idle (mouse button up, no      *)
(* finger down), no gesture tracking remains: pending touch, pinch         *)
(* tracking, mouse-drag tracking, pan-drag tracking, the DragState and     *)
(* the two click-suppression flags are all clear, so that the next         *)
(* gesture starts from a clean slate.                                      *)
(***************************************************************************)
C31_Idle == pointer.button \in {"up", "outside"} /\ pendingTouchRef = NULL

C31_CleanSlate ==
    C31_Idle =>
        /\ pinchRef = NULL
        /\ mouseDragRef = NULL
        /\ panDragRef = NULL
        /\ activeDrag = NULL
        /\ ~justDraggedRef
        /\ ~justPannedRef

\* The same without the click-suppression flags.
C31_TrackingCleared ==
    C31_Idle =>
        /\ pinchRef = NULL
        /\ mouseDragRef = NULL
        /\ panDragRef = NULL
        /\ activeDrag = NULL

\* A click on empty space, at the press position, after a press that
\* tracked nothing, is about to be swallowed by a flag left from an
\* earlier gesture.
C31_SwallowedClick ==
    /\ pointer.button = "click"
    /\ pointer.at = pointer.press
    /\ pointer.heldFor < TAP_MAX_DURATION
    /\ hitTestPoints(pointer.press) = NULL
    /\ lastOp = NoOp
    /\ justDraggedRef

\* ---------------------------------------------------------------------
\* A device with both a touch screen and a mouse: the canvas registers the
\* touch handlers and the mouse handlers side by side, and neither family
\* looks at the other's refs, so their events interleave freely.
HybridPositions == {Screen(0, 0), Screen(1, 0)}
HybridTouchStart == \E sp \in HybridPositions : handleCanvasTouchStart(<<sp>>)
HybridPinchStart == handleCanvasTouchStart(SecondFingerTouches)
HybridTouchMove == handleCanvasTouchMove(<<Screen(1, 0)>>)
\* Taps place calibration points up to HybridMaxPoints of them.
HybridMaxPoints == 2
HybridTouchEnd == handleCanvasTouchEnd(0) /\ Len(calibration'.points) <= HybridMaxPoints
HybridMouseDown == \E sp \in HybridPositions : handleCanvasMouseDown(sp)
HybridMouseMove == handleCanvasMouseMove(Screen(1, 1))

NextHybrid ==
    \/ handleImageLoad
    \/ HybridTouchStart
    \/ HybridPinchStart
    \/ HybridTouchMove
    \/ HybridTouchEnd
    \/ HybridMouseDown
    \/ HybridMouseMove
    \/ MouseUp
    \/ Click

SpecHybrid == Init /\ [][NextHybrid]_vars

\* C32: the gestures in progress.  A mouse drag or mouse pan is in progress
\* once its press has moved past the threshold; a touch session carries its
\* gesture; a pinch is in progress while pinchRef is set.
C32_MouseDrag == mouseDragRef # NULL /\ justDraggedRef
C32_MousePan == panDragRef # NULL /\ justPannedRef
C32_TouchDrag == pendingTouchRef # NULL /\ pendingTouchRef.gesture = "drag"
C32_TouchPan == pendingTouchRef # NULL /\ pendingTouchRef.gesture = "pan"
C32_Pinch == pinchRef # NULL

C32_Active ==
    {g \in {"mouse-drag", "mouse-pan", "touch-drag", "touch-pan", "pinch"} :
        \/ g = "mouse-drag" /\ C32_MouseDrag
        \/ g = "mouse-pan" /\ C32_MousePan
        \/ g = "touch-drag" /\ C32_TouchDrag
        \/ g = "touch-pan" /\ C32_TouchPan
        \/ g = "pinch" /\ C32_Pinch}

\* C32: in every reachable state at most one of point-drag, pan and pinch is
\* in progress, counting the touch session's gesture and the mouse drag and
\* mouse pan tracking together, under any interleaving of mouse and touch
\* events.
C32_OneGesture == Cardinality(C32_Active) <= 1

\* C32: a mouse drag and a touch drag both hold a DragState for the same
\* point.
C32_TwoDrags == C32_MouseDrag /\ C32_TouchDrag /\ activeDrag # NULL

\* ---------------------------------------------------------------------
\* C33: the screen positions probed: a tap position, the canvas centre, and
\* two points halfway between tap positions, which are equally far from both.
C33_Probes == {Screen(0, 0), Screen(3, 1), Midpoint(Screen(0, 0), Screen(1, 0)), Midpoint(Screen(1, 0), Screen(2, 0))}

\* The squared screen distance from screenPt to the point a source names.
C33_Dist2(source, screenPt) ==
    LET t == getEffectiveTransform
        p == IF source.kind = "offside"
             THEN offsideLines[CHOOSE k \in 1..Len(offsideLines) : offsideLines[k].id = source.lineId].throughPoint
             ELSE calibration.points[source.index + 1]
    IN  Hypot2(imageToScreen(p, t.scale, t.offset), screenPt)

C33_Sources ==
    {[kind |-> "offside", lineId |-> offsideLines[k].id] : k \in 1..Len(offsideLines)}
        \cup {[kind |-> "calibration", index |-> i - 1] : i \in 1..Len(calibration.points)}

C33_Defined == ~crashed /\ \A i \in 1..Len(calibration.points) : calibration.points[i] # undefined

\* C33: hitTestPoints returns none exactly when no calibration point and no
\* ray through-point lies strictly less than 24 px from the position on
\* screen; otherwise it returns a point of minimum distance, a ray
\* through-point before a calibration point at the same distance, and the
\* later-added calibration point before an earlier one at the same distance.
C33_ClosestWithinRadius ==
    C33_Defined =>
        \A sp \in C33_Probes :
            LET hit == hitTestPoints(sp)
                dist == [s \in C33_Sources |-> C33_Dist2(s, sp)]
                reach == R(HIT_RADIUS * HIT_RADIUS)
            IN
            /\ (hit = NULL) <=> (\A s \in C33_Sources : ~RLt(dist[s], reach))
            /\ hit # NULL =>
                 /\ hit \in C33_Sources
                 /\ RLt(dist[hit], reach)
                 /\ \A s \in C33_Sources :
                      /\ RLe(dist[hit], dist[s])
                      /\ RLe(dist[s], dist[hit]) =>
                           /\ s.kind = "offside" => hit.kind = "offside"
                           /\ s.kind = "calibration" /\ hit.kind = "calibration"
                                => s.index <= hit.index

\* C33: a probe with a ray through-point and a calibration point equally
\* close and within reach, the ray winning.
C33_WitnessRayTie ==
    /\ C33_Defined
    /\ \E sp \in C33_Probes : \E s \in C33_Sources :
         /\ hitTestPoints(sp) # NULL
         /\ hitTestPoints(sp).kind = "offside"
         /\ s.kind = "calibration"
         /\ RLe(C33_Dist2(s, sp), C33_Dist2(hitTestPoints(sp), sp))

\* C33: a probe with two calibration points equally close and within reach,
\* the later one winning.
C33_WitnessLaterWins ==
    /\ C33_Defined
    /\ \E sp \in C33_Probes : \E s \in C33_Sources :
         /\ hitTestPoints(sp) # NULL
         /\ hitTestPoints(sp).kind = "calibration"
         /\ s.kind = "calibration"
         /\ s.index < hitTestPoints(sp).index
         /\ RLe(C33_Dist2(s, sp), C33_Dist2(hitTestPoints(sp), sp))

\* C33: a probe with points on the canvas and none within reach.
C33_WitnessNone ==
    /\ C33_Defined
    /\ C33_Sources # {}
    /\ \E sp \in C33_Probes : hitTestPoints(sp) = NULL

\* ---------------------------------------------------------------------
\* C34: a commit-drag of an existing calibration point.
C34_CalibrationDrag ==
    /\ CommitDragStep
    /\ lastOp'.source.kind = "calibration"
    /\ lastOp'.source.index < Len(calibration.points)

C34_Step ==
    C34_CalibrationDrag =>
        /\ LinesParallel(calibration') =>
             /\ parallelError'
             /\ vanishingPoint' = vanishingPoint
             /\ mode' = mode
             /\ offsideLines' = offsideLines
        /\ (/\ LinesParallel(calibration)
            /\ Defined(calibration'.line1) /\ Defined(calibration'.line2)
            /\ ~LinesParallel(calibration')) =>
             /\ vanishingPoint' # NULL
             /\ OnLine(vanishingPoint', calibration'.line1)
             /\ OnLine(vanishingPoint', calibration'.line2)
             /\ ~parallelError'

\* C34: a commit-drag of a calibration point that makes line1 and line2
\* parallel sets the parallel-error flag and leaves the vanishing point, the
\* mode and the rays as they were; a commit-drag that makes parallel lines
\* non-parallel sets the vanishing point to the new intersection and clears
\* the flag.
C34_StaleUntilCorrected == [][C34_Step]_vars

\* C34: in offside mode a commit-drag has made the lines parallel; the flag
\* is set and the vanishing point of the earlier calibration is still there.
C34_Witness ==
    /\ lastOp.op = "commit-drag"
    /\ lastOp.source.kind = "calibration"
    /\ Len(calibration.points) = 4
    /\ LinesParallel(calibration)
    /\ parallelError
    /\ vanishingPoint # NULL
    /\ mode = "offside"

\* C34: the state before a commit-drag that corrects a drag-made parallel
\* calibration: the finger holds a calibration point, the lines are parallel
\* and the stale vanishing point is in place.
C34_WitnessCorrecting ==
    /\ activeDrag # NULL
    /\ activeDrag.source.kind = "calibration"
    /\ LinesParallel(calibration)
    /\ parallelError
    /\ vanishingPoint # NULL
    /\ LET pts == ArraySet(calibration.points, activeDrag.source.index, activeDrag.currentPoint)
       IN  /\ Len(pts) = 4
           /\ ~Parallel(Line(pts[1], pts[2]), Line(pts[3], pts[4]))

(***************************************************************************)
(* extendLineToBounds (src/lib/geometry.ts)                                *)
(***************************************************************************)
\* Math.abs(d) > 1e-10: for the rationals the model can hold, d is not zero.
AboveTolerance(r) == IsFinite(r) /\ r[1] # 0

\* Math.abs(u.x - pt.x) < 0.5 && Math.abs(u.y - pt.y) < 0.5
NearDuplicate(u, pt) ==
    /\ RLt(RSub(u.x, pt.x), <<1, 2>>) /\ RLt(RSub(pt.x, u.x), <<1, 2>>)
    /\ RLt(RSub(u.y, pt.y), <<1, 2>>) /\ RLt(RSub(pt.y, u.y), <<1, 2>>)

\* The loop that removes near-duplicate intersections, from index i on.
RECURSIVE UniqueIntersections(_, _, _)
UniqueIntersections(intersections, i, unique) ==
    IF i > Len(intersections) THEN unique
    ELSE LET pt == intersections[i] IN
         IF \E k \in 1..Len(unique) : NearDuplicate(unique[k], pt)
         THEN UniqueIntersections(intersections, i + 1, unique)
         ELSE UniqueIntersections(intersections, i + 1, Append(unique, pt))

\* The candidates pushed for the left, right, top and bottom edge, in that
\* order.
EdgeIntersections(p1, p2, width, height) ==
    LET dx == RSub(p2.x, p1.x)
        dy == RSub(p2.y, p1.y)
        yAt(ex) == RAdd(p1.y, RMul(RDiv(RSub(ex, p1.x), dx), dy))
        xAt(ey) == RAdd(p1.x, RMul(RDiv(RSub(ey, p1.y), dy), dx))
        yOk(y) == RLe(RNeg(height), y) /\ RLe(y, RMul(R(2), height))
        xOk(x) == RLe(RNeg(width), x) /\ RLe(x, RMul(R(2), width))
        left == IF AboveTolerance(dx) /\ yOk(yAt(R(0)))
                THEN <<[x |-> R(0), y |-> yAt(R(0))]>> ELSE <<>>
        right == IF AboveTolerance(dx) /\ yOk(yAt(width))
                 THEN <<[x |-> width, y |-> yAt(width)]>> ELSE <<>>
        top == IF AboveTolerance(dy) /\ xOk(xAt(R(0)))
               THEN <<[x |-> xAt(R(0)), y |-> R(0)]>> ELSE <<>>
        bottom == IF AboveTolerance(dy) /\ xOk(xAt(height))
                  THEN <<[x |-> xAt(height), y |-> height]>> ELSE <<>>
    IN  left \o right \o top \o bottom

\* Variant: the fallback extends by the direction vector itself.
extendLineToBounds_Short(p1, p2, width, height) ==
    LET dx == RSub(p2.x, p1.x)
        dy == RSub(p2.y, p1.y)
        unique == UniqueIntersections(EdgeIntersections(p1, p2, width, height), 1, <<>>)
    IN  IF BelowTolerance(dx) /\ BelowTolerance(dy) THEN <<p1, p2>>
        ELSE IF Len(unique) >= 2 THEN <<unique[1], unique[2]>>
        ELSE <<[x |-> RSub(p1.x, dx), y |-> RSub(p1.y, dy)],
               [x |-> RAdd(p1.x, dx), y |-> RAdd(p1.y, dy)]>>

extendLineToBounds(p1, p2, width, height) ==
    LET dx == RSub(p2.x, p1.x)
        dy == RSub(p2.y, p1.y)
        unique == UniqueIntersections(EdgeIntersections(p1, p2, width, height), 1, <<>>)
    IN  IF BelowTolerance(dx) /\ BelowTolerance(dy) THEN <<p1, p2>>
        ELSE IF Len(unique) >= 2 THEN <<unique[1], unique[2]>>
        ELSE <<[x |-> RSub(p1.x, RMul(dx, R(10000))), y |-> RSub(p1.y, RMul(dy, R(10000)))],
               [x |-> RAdd(p1.x, RMul(dx, R(10000))), y |-> RAdd(p1.y, RMul(dy, R(10000)))]>>

(***************************************************************************)
(* extendLineToBounds on its own: two points of a grid that reaches beyond *)
(* the rectangle are handed to it in either order, with the rectangle      *)
(* [0, BoundsWidth] x [0, BoundsHeight].                                   *)
(***************************************************************************)
BoundsWidth == 6
BoundsHeight == 4

BoundsPoints == {Pt(x, y) : x \in {0, 1, 3, 20}, y \in {-2, 0, 2, 20}}

InitBounds ==
    /\ image = TheImage
    /\ mode = "calibration"
    /\ \E p1 \in BoundsPoints, p2 \in BoundsPoints :
          calibration = [points |-> <<p1, p2>>, line1 |-> Line(p1, p2), line2 |-> NULL]
    /\ vanishingPoint = NULL
    /\ offsideLines = <<>>
    /\ parallelError = FALSE
    /\ activeDrag = NULL
    /\ view = [zoom |-> R(1), pan |-> Pt(0, 0)]
    /\ pendingTouchRef = NULL
    /\ mouseDragRef = NULL
    /\ justDraggedRef = FALSE
    /\ panDragRef = NULL
    /\ justPannedRef = FALSE
    /\ pinchRef = NULL
    /\ layoutRef = computeLayout
    /\ uuidCount = 0
    /\ pointer = PointerUp
    /\ crashed = FALSE
    /\ lastOp = NoOp

\* extendLineToBounds(p1, p2, width, height)
Extend ==
    /\ lastOp' = [op |-> "extendLineToBounds", swapped |-> FALSE,
                  ends |-> extendLineToBounds(calibration.line1.p1, calibration.line1.p2,
                                              R(BoundsWidth), R(BoundsHeight))]
    /\ UNCHANGED <<homeVars, hookVars, uuidCount, pointer, crashed>>

\* extendLineToBounds(p2, p1, width, height)
ExtendSwapped ==
    /\ lastOp' = [op |-> "extendLineToBounds", swapped |-> TRUE,
                  ends |-> extendLineToBounds(calibration.line1.p2, calibration.line1.p1,
                                              R(BoundsWidth), R(BoundsHeight))]
    /\ UNCHANGED <<homeVars, hookVars, uuidCount, pointer, crashed>>

NextBounds ==
    \/ Extend
    \/ ExtendSwapped

SpecBounds == InitBounds /\ [][NextBounds]_vars

\* The call that has been made: its arguments in call order, and whether
\* fewer than two crossings survived.
ExtendCalled == lastOp.op = "extendLineToBounds"
ExtendP1 == IF lastOp.swapped THEN calibration.line1.p2 ELSE calibration.line1.p1
ExtendP2 == IF lastOp.swapped THEN calibration.line1.p1 ELSE calibration.line1.p2
ExtendSurvivors ==
    IF ExtendP1 = ExtendP2 THEN 0
    ELSE Len(UniqueIntersections(EdgeIntersections(ExtendP1, ExtendP2, R(BoundsWidth), R(BoundsHeight)), 1, <<>>))

\* C35: extendLineToBounds(p1, p2, w, h) and extendLineToBounds(p2, p1, w, h)
\* return the same pair of endpoints in the same order, the fallback pair
\* included.
C35_OrderIndependent ==
    ExtendCalled =>
        lastOp.ends = extendLineToBounds(ExtendP2, ExtendP1, R(BoundsWidth), R(BoundsHeight))

\* C35: the same for the calls in which two crossings survive.
C35_CrossingsOrderIndependent ==
    (ExtendCalled /\ ExtendSurvivors >= 2) =>
        lastOp.ends = extendLineToBounds(ExtendP2, ExtendP1, R(BoundsWidth), R(BoundsHeight))

\* C35: a call with two distinct points that fell back.
C35_FallbackCall == ExtendCalled /\ ExtendP1 # ExtendP2 /\ ExtendSurvivors < 2

C36_WitnessSamePoint == ExtendCalled /\ ExtendP1 = ExtendP2 /\ lastOp.ends = <<ExtendP1, ExtendP1>>

\* C39: the points in which the infinite line through p1 and p2 meets the
\* boundary of the rectangle [0, width] x [0, height]; the part of the line
\* inside the rectangle is the segment they span.
C39_BoundaryPoints(p1, p2, width, height) ==
    LET dx == RSub(p2.x, p1.x)
        dy == RSub(p2.y, p1.y)
        yAt(ex) == RAdd(p1.y, RMul(RDiv(RSub(ex, p1.x), dx), dy))
        xAt(ey) == RAdd(p1.x, RMul(RDiv(RSub(ey, p1.y), dy), dx))
    IN  {[x |-> ex, y |-> yAt(ex)] :
            ex \in {e \in {R(0), width} : dx # R(0) /\ RLe(R(0), yAt(e)) /\ RLe(yAt(e), height)}}
        \cup
        {[x |-> xAt(ey), y |-> ey] :
            ey \in {e \in {R(0), height} : dy # R(0) /\ RLe(R(0), xAt(e)) /\ RLe(xAt(e), width)}}

C39_Between(c, e1, e2) ==
    /\ RLe(RMin(e1.x, e2.x), c.x) /\ RLe(c.x, RMax(e1.x, e2.x))
    /\ RLe(RMin(e1.y, e2.y), c.y) /\ RLe(c.y, RMax(e1.y, e2.y))

C39_Visible == C39_BoundaryPoints(ExtendP1, ExtendP2, R(BoundsWidth), R(BoundsHeight))

\* C39: whenever the infinite line through p1 # p2 passes through the
\* rectangle [0, w] x [0, h], both returned endpoints lie on the line and
\* the segment between them contains every point of the line that is inside
\* the rectangle.
C39_CoversVisiblePart ==
    (ExtendCalled /\ ExtendP1 # ExtendP2 /\ C39_Visible # {}) =>
        /\ \A k \in 1..2 : Cross(ExtendP1, ExtendP2, ExtendP1, lastOp.ends[k]) = R(0)
        /\ \A c \in C39_Visible : C39_Between(c, lastOp.ends[1], lastOp.ends[2])

\* C39: the same without the requirement on the segment: the endpoints lie
\* on the line.
C39_EndsOnLine ==
    (ExtendCalled /\ ExtendP1 # ExtendP2) =>
        \A k \in 1..2 : Cross(ExtendP1, ExtendP2, ExtendP1, lastOp.ends[k]) = R(0)

\* C39: a line that crosses the inside of the rectangle, for which the
\* returned segment has no point inside it.
C39_DrawnOutside ==
    /\ ExtendCalled /\ ExtendP1 # ExtendP2
    /\ Cardinality(C39_Visible) = 2
    /\ \A c \in C39_Visible :
         \/ ~C39_Between(c, lastOp.ends[1], lastOp.ends[2])
         \/ c = lastOp.ends[1] \/ c = lastOp.ends[2]
    /\ \E c \in C39_Visible : ~C39_Between(c, lastOp.ends[1], lastOp.ends[2])

\* ---------------------------------------------------------------------
\* C37: in every reachable state, if the mode is ray-drawing (offside) or
\* there are rays, the vanishing point is non-null and exactly 4 calibration
\* points exist; and whenever the vanishing point is non-null exactly 4
\* calibration points exist.
C37_RaysNeedCalibration ==
    /\ (mode = "offside" \/ offsideLines # <<>>) =>
         /\ vanishingPoint # NULL
         /\ Len(calibration.points) = 4
    /\ vanishingPoint # NULL => Len(calibration.points) = 4

\* C37: rays drawn in offside mode.
C37_Witness ==
    /\ mode = "offside"
    /\ offsideLines # <<>>
    /\ vanishingPoint # NULL
    /\ Len(calibration.points) = 4

\* C37: a vanishing point outside offside mode, after a drag repaired a
\* parallel calibration.
C37_WitnessCalibrationMode ==
    /\ mode = "calibration"
    /\ vanishingPoint # NULL
    /\ Len(calibration.points) = 4

\* ---------------------------------------------------------------------
\* C38: the point a drag names is no longer there.
C38_TargetGone(source) ==
    IF source.kind = "calibration"
    THEN source.index >= Len(calibration.points)
    ELSE source.lineId \notin LineIds(offsideLines)

C38_Step ==
    (CommitDragStep /\ C38_TargetGone(lastOp'.source)) =>
        /\ calibration' = calibration
        /\ offsideLines' = offsideLines
        /\ vanishingPoint' = vanishingPoint
        /\ mode' = mode
        /\ parallelError' = parallelError

\* C38: a commit-drag whose target no longer exists at release (the ray was
\* deleted or cleared, or the calibration was reset after the press) leaves
\* the data model unchanged: no ray is created or altered, and
\* calibration.points gains no entry and no hole.
C38_StaleDragIgnored == [][C38_Step]_vars

\* C38: the same for the drag of a ray that was deleted or cleared.
C38_RayStep ==
    (CommitDragStep /\ lastOp'.source.kind = "offside" /\ C38_TargetGone(lastOp'.source)) =>
        UNCHANGED dataVars

C38_StaleRayDragIgnored == [][C38_RayStep]_vars

\* C38: the drag of a calibration point released after a reset has written
\* an entry into the emptied points array.
C38_StaleEntry ==
    /\ lastOp.op = "commit-drag"
    /\ lastOp.source.kind = "calibration"
    /\ mode = "calibration"
    /\ vanishingPoint = NULL
    /\ Len(calibration.points) = lastOp.source.index + 1
    /\ \A k \in 1..lastOp.source.index : calibration.points[k] = undefined

====
